---------------------------- MODULE Spec2Model ----------------------------
(***************************************************************************)
(* Model of the audit subsystem of the book-publishing API: the policy     *)
(* registry, the diff engine, the cursor codec, the audit log store and    *)
(* the Book lifecycle operations that trigger it.                          *)
(*                                                                         *)
(* JavaScript strings are sequences of character codes, so that JSON       *)
(* serialisation, base64 and substring matching are computed, not assumed. *)
(* Object keys, entity names and action names are TLA+ strings; Spell      *)
(* gives a key's spelling where its text matters.                          *)
(***************************************************************************)
EXTENDS Naturals, Integers, Sequences, FiniteSets, TLC

VARIABLES
    books,      \* the Book table: id -> row
    auditLog,   \* the AuditLog table: a set of rows
    now,        \* the server clock, in milliseconds
    req,        \* the requests in flight: slot -> the handler's local state
    started,    \* number of requests started so far
    dcall,      \* one call of computeDiff: its arguments and its result
    ccall,      \* one call of the cursor codec: its argument and its result
    rcall,      \* one direct call of createAuditLog: arguments and result
    page        \* one client following nextCursor through findAuditLogs

vars == <<books, auditLog, now, req, started, dcall, ccall, rcall, page>>

-----------------------------------------------------------------------------
(* Bounds of the model *)

NumVals == 2        \* distinct string values a snapshot field can take
MaxTime == 1        \* the clock runs over 0..MaxTime
MaxLog == 1         \* entries a directly driven audit log may hold
MaxLimit == 3       \* page sizes 1..MaxLimit are tried
MaxIdLen == 2       \* longest id of a cursor payload
MaxTamper == 2      \* positions of a cursor a client overwrites
MaxPageLog == 3     \* rows of the log a client pages through
MaxPageTime == 1    \* the clock of that log runs over 0..MaxPageTime
MaxRequests == 2    \* requests received in one run

-----------------------------------------------------------------------------
(* Values *)

Null == [t |-> "null", v |-> <<>>]
Undefined == [t |-> "undefined", v |-> <<>>]
VStr(s) == [t |-> "str", v |-> s]
VBool(b) == [t |-> "bool", v |-> b]
VDate(ms) == [t |-> "date", v |-> ms]
VObj(o) == [t |-> "obj", v |-> o]

RECURSIVE Flatten(_)
Flatten(ss) == IF ss = <<>> THEN <<>> ELSE Head(ss) \o Flatten(Tail(ss))

\* order of the keys of the objects the model builds (Prisma returns a
\* row's scalar fields in schema order, then the included relations)
KeyOrder ==
    <<"id", "title", "authors", "publishedBy", "createdById", "updatedById",
      "isDeleted", "createdAt", "updatedAt", "createdBy", "updatedBy",
      "name", "email", "password", "apiKey", "loginTime", "timestamp">>

Spell ==
    [id |-> <<105, 100>>,
     title |-> <<116, 105, 116, 108, 101>>,
     authors |-> <<97, 117, 116, 104, 111, 114, 115>>,
     publishedBy |-> <<112, 117, 98, 108, 105, 115, 104, 101, 100, 66, 121>>,
     createdById |-> <<99, 114, 101, 97, 116, 101, 100, 66, 121, 73, 100>>,
     updatedById |-> <<117, 112, 100, 97, 116, 101, 100, 66, 121, 73, 100>>,
     isDeleted |-> <<105, 115, 68, 101, 108, 101, 116, 101, 100>>,
     createdAt |-> <<99, 114, 101, 97, 116, 101, 100, 65, 116>>,
     updatedAt |-> <<117, 112, 100, 97, 116, 101, 100, 65, 116>>,
     createdBy |-> <<99, 114, 101, 97, 116, 101, 100, 66, 121>>,
     updatedBy |-> <<117, 112, 100, 97, 116, 101, 100, 66, 121>>,
     name |-> <<110, 97, 109, 101>>,
     email |-> <<101, 109, 97, 105, 108>>,
     password |-> <<112, 97, 115, 115, 119, 111, 114, 100>>,
     apiKey |-> <<97, 112, 105, 75, 101, 121>>,
     loginTime |-> <<108, 111, 103, 105, 110, 84, 105, 109, 101>>,
     timestamp |-> <<116, 105, 109, 101, 115, 116, 97, 109, 112>>]

\* the keys of S in object order
RECURSIVE KeysFrom(_, _)
KeysFrom(order, S) ==
    IF order = <<>> THEN <<>>
    ELSE (IF Head(order) \in S THEN <<Head(order)>> ELSE <<>>)
         \o KeysFrom(Tail(order), S)

ObjectKeys(o) == KeysFrom(KeyOrder, DOMAIN o)

Range(s) == {s[i] : i \in DOMAIN s}

-----------------------------------------------------------------------------
(* Date.prototype.toISOString and new Date(string), for the instants        *)
(* 0..999 ms of the epoch, whose text is 1970-01-01T00:00:00.mmmZ           *)

IsoPrefix ==
    <<49, 57, 55, 48, 45, 48, 49, 45, 48, 49, 84, 48, 48, 58, 48, 48, 58, 48, 48, 46>>

InvalidDate == -1

toISOString(ms) ==
    IsoPrefix \o <<48 + (ms \div 100), 48 + ((ms \div 10) % 10), 48 + (ms % 10), 90>>

IsDigit(c) == c >= 48 /\ c <= 57

\* new Date(s): the instant an ISO text of the form above denotes, Invalid
\* Date for the empty text and for text that is no date
NewDate(s) ==
    IF /\ Len(s) = Len(IsoPrefix) + 4
       /\ SubSeq(s, 1, Len(IsoPrefix)) = IsoPrefix
       /\ \A i \in 1..3 : IsDigit(s[Len(IsoPrefix) + i])
       /\ s[Len(s)] = 90
    THEN (s[Len(IsoPrefix) + 1] - 48) * 100 + (s[Len(IsoPrefix) + 2] - 48) * 10
         + (s[Len(IsoPrefix) + 3] - 48)
    ELSE InvalidDate

-----------------------------------------------------------------------------
(* JSON.stringify *)

HexDigit(n) == IF n < 10 THEN 48 + n ELSE 87 + n

\* the text of one character inside a JSON string literal
JsonEscapeChar(c) ==
    IF c = 34 THEN <<92, 34>>
    ELSE IF c = 92 THEN <<92, 92>>
    ELSE IF c = 8 THEN <<92, 98>>
    ELSE IF c = 9 THEN <<92, 116>>
    ELSE IF c = 10 THEN <<92, 110>>
    ELSE IF c = 12 THEN <<92, 102>>
    ELSE IF c = 13 THEN <<92, 114>>
    ELSE IF c < 32 THEN <<92, 117, 48, 48, HexDigit(c \div 16), HexDigit(c % 16)>>
    ELSE <<c>>

\* a string literal written without escaping its characters
JsonQuote_Unescaped(s) == <<34>> \o s \o <<34>>

JsonQuote(s) == <<34>> \o Flatten([i \in DOMAIN s |-> JsonEscapeChar(s[i])]) \o <<34>>

RECURSIVE JoinWith(_, _)
JoinWith(parts, sep) ==
    IF parts = <<>> THEN <<>>
    ELSE IF Len(parts) = 1 THEN parts[1]
    ELSE parts[1] \o sep \o JoinWith(Tail(parts), sep)

\* the result of JSON.stringify: a text, or undefined
NoText == [def |-> FALSE, text |-> <<>>]
Text(s) == [def |-> TRUE, text |-> s]

\* JSON.stringify of a scalar
ScalarText(val) ==
    CASE val.t = "str" -> Text(JsonQuote(val.v))
      [] val.t = "date" -> Text(JsonQuote(toISOString(val.v)))
      [] val.t = "bool" ->
            Text(IF val.v THEN <<116, 114, 117, 101>> ELSE <<102, 97, 108, 115, 101>>)
      [] val.t = "null" -> Text(<<110, 117, 108, 108>>)
      [] OTHER -> NoText

\* JSON.stringify of an object whose members are scalars: members whose
\* value is undefined are left out
ObjectText(o) ==
    LET ks == SelectSeq(ObjectKeys(o), LAMBDA k : ScalarText(o[k]).def)
    IN  <<123>>
        \o JoinWith([i \in DOMAIN ks |->
                        JsonQuote(Spell[ks[i]]) \o <<58>> \o ScalarText(o[ks[i]]).text],
                    <<44>>)
        \o <<125>>

JSONstringify(val) ==
    IF val.t = "obj" THEN Text(ObjectText(val.v)) ELSE ScalarText(val)

-----------------------------------------------------------------------------
(* Buffer.from(text).toString('base64') and Buffer.from(text, 'base64')     *)

\* UTF-8 bytes of a string of BMP characters
Utf8EncodeChar(c) ==
    IF c < 128 THEN <<c>>
    ELSE IF c < 2048 THEN <<192 + (c \div 64), 128 + (c % 64)>>
    ELSE <<224 + (c \div 4096), 128 + ((c \div 64) % 64), 128 + (c % 64)>>

Utf8Encode(s) == Flatten([i \in DOMAIN s |-> Utf8EncodeChar(s[i])])

IsCont(b) == b >= 128 /\ b <= 191

\* toString('utf-8'): malformed bytes become U+FFFD
RECURSIVE Utf8Decode(_)
Utf8Decode(b) ==
    IF b = <<>> THEN <<>>
    ELSE IF b[1] < 128 THEN <<b[1]>> \o Utf8Decode(Tail(b))
    ELSE IF b[1] >= 194 /\ b[1] <= 223 /\ Len(b) >= 2 /\ IsCont(b[2])
         THEN <<(b[1] - 192) * 64 + (b[2] - 128)>> \o Utf8Decode(SubSeq(b, 3, Len(b)))
    ELSE IF /\ b[1] >= 224 /\ b[1] <= 239 /\ Len(b) >= 3 /\ IsCont(b[2]) /\ IsCont(b[3])
            /\ (b[1] = 224 => b[2] >= 160)
            /\ (b[1] = 237 => b[2] <= 159)
         THEN <<(b[1] - 224) * 4096 + (b[2] - 128) * 64 + (b[3] - 128)>>
              \o Utf8Decode(SubSeq(b, 4, Len(b)))
    ELSE <<65533>> \o Utf8Decode(Tail(b))

Base64Char(n) ==
    IF n < 26 THEN 65 + n
    ELSE IF n < 52 THEN 97 + (n - 26)
    ELSE IF n < 62 THEN 48 + (n - 52)
    ELSE IF n = 62 THEN 43 ELSE 47

\* the value of a base64 (or base64url) character, 64 for any other
unbase64(c) ==
    IF c >= 65 /\ c <= 90 THEN c - 65
    ELSE IF c >= 97 /\ c <= 122 THEN c - 97 + 26
    ELSE IF c >= 48 /\ c <= 57 THEN c - 48 + 52
    ELSE IF c = 43 \/ c = 45 THEN 62
    ELSE IF c = 47 \/ c = 95 THEN 63
    ELSE 64

RECURSIVE Base64Encode(_)
Base64Encode(b) ==
    IF b = <<>> THEN <<>>
    ELSE IF Len(b) = 1
         THEN <<Base64Char(b[1] \div 4), Base64Char((b[1] % 4) * 16), 61, 61>>
    ELSE IF Len(b) = 2
         THEN <<Base64Char(b[1] \div 4), Base64Char((b[1] % 4) * 16 + (b[2] \div 16)),
                Base64Char((b[2] % 16) * 4), 61>>
    ELSE <<Base64Char(b[1] \div 4), Base64Char((b[1] % 4) * 16 + (b[2] \div 16)),
           Base64Char((b[2] % 16) * 4 + (b[3] \div 64)), Base64Char(b[3] % 64)>>
         \o Base64Encode(SubSeq(b, 4, Len(b)))

\* the text before the first '='
RECURSIVE UpToPad(_)
UpToPad(s) ==
    IF s = <<>> \/ s[1] = 61 THEN <<>> ELSE <<s[1]>> \o UpToPad(Tail(s))

RECURSIVE SextetsToBytes(_)
SextetsToBytes(x) ==
    IF Len(x) < 2 THEN <<>>
    ELSE IF Len(x) = 2 THEN <<x[1] * 4 + (x[2] \div 16)>>
    ELSE IF Len(x) = 3
         THEN <<x[1] * 4 + (x[2] \div 16), (x[2] % 16) * 16 + (x[3] \div 4)>>
    ELSE <<x[1] * 4 + (x[2] \div 16), (x[2] % 16) * 16 + (x[3] \div 4),
           (x[3] % 4) * 64 + x[4]>>
         \o SextetsToBytes(SubSeq(x, 5, Len(x)))

\* the decoder never fails: it skips characters outside the alphabet and
\* stops at the first '='
Base64Decode(s) ==
    LET legal == SelectSeq(UpToPad(s), LAMBDA c : unbase64(c) < 64)
    IN  SextetsToBytes([i \in DOMAIN legal |-> unbase64(legal[i])])

-----------------------------------------------------------------------------
(* JSON.parse: a parsed value is a string, a number (kept as its text), a   *)
(* boolean, null, an array, or an object (its members in order)             *)

VNum(text) == [t |-> "num", v |-> text]
VArr(items) == [t |-> "arr", v |-> items]
VJObj(members) == [t |-> "jobj", v |-> members]

SyntaxError == [ok |-> FALSE, val |-> Null, pos |-> 0]
Parsed(val, pos) == [ok |-> TRUE, val |-> val, pos |-> pos]

IsWs(c) == c \in {32, 9, 10, 13}

RECURSIVE SkipWs(_, _)
SkipWs(s, i) == IF i <= Len(s) /\ IsWs(s[i]) THEN SkipWs(s, i + 1) ELSE i

RECURSIVE SkipDigits(_, _)
SkipDigits(s, i) == IF i <= Len(s) /\ IsDigit(s[i]) THEN SkipDigits(s, i + 1) ELSE i

IsHex(c) == IsDigit(c) \/ (c >= 97 /\ c <= 102) \/ (c >= 65 /\ c <= 70)

HexVal(c) == IF IsDigit(c) THEN c - 48 ELSE IF c >= 97 THEN c - 87 ELSE c - 55

\* s starts at i with the text lit
StartsWith(s, i, lit) == i + Len(lit) - 1 <= Len(s) /\ SubSeq(s, i, i + Len(lit) - 1) = lit

\* the string literal whose opening quote precedes position i
RECURSIVE ParseString(_, _, _)
ParseString(s, i, acc) ==
    IF i > Len(s) THEN SyntaxError
    ELSE IF s[i] = 34 THEN Parsed(VStr(acc), i + 1)
    ELSE IF s[i] < 32 THEN SyntaxError
    ELSE IF s[i] # 92 THEN ParseString(s, i + 1, Append(acc, s[i]))
    ELSE IF i + 1 > Len(s) THEN SyntaxError
    ELSE LET e == s[i + 1] IN
         IF e \in {34, 92, 47} THEN ParseString(s, i + 2, Append(acc, e))
         ELSE IF e = 98 THEN ParseString(s, i + 2, Append(acc, 8))
         ELSE IF e = 102 THEN ParseString(s, i + 2, Append(acc, 12))
         ELSE IF e = 110 THEN ParseString(s, i + 2, Append(acc, 10))
         ELSE IF e = 114 THEN ParseString(s, i + 2, Append(acc, 13))
         ELSE IF e = 116 THEN ParseString(s, i + 2, Append(acc, 9))
         ELSE IF e = 117 /\ i + 5 <= Len(s) /\ \A j \in 2..5 : IsHex(s[i + j])
              THEN ParseString(s, i + 6,
                               Append(acc, HexVal(s[i + 2]) * 4096 + HexVal(s[i + 3]) * 256
                                           + HexVal(s[i + 4]) * 16 + HexVal(s[i + 5])))
         ELSE SyntaxError

\* -? (0 | [1-9][0-9]*) (. [0-9]+)? ([eE] [+-]? [0-9]+)?
ParseNumber(s, i) ==
    LET j0 == IF s[i] = 45 THEN i + 1 ELSE i
        j1 == IF j0 > Len(s) \/ ~IsDigit(s[j0]) THEN 0
              ELSE IF s[j0] = 48 THEN j0 + 1 ELSE SkipDigits(s, j0)
        j2 == IF j1 = 0 THEN 0
              ELSE IF j1 <= Len(s) /\ s[j1] = 46
                   THEN (IF SkipDigits(s, j1 + 1) = j1 + 1 THEN 0 ELSE SkipDigits(s, j1 + 1))
              ELSE j1
        k == IF j2 # 0 /\ j2 + 1 <= Len(s) /\ s[j2 + 1] \in {43, 45} THEN j2 + 2 ELSE j2 + 1
        j3 == IF j2 = 0 THEN 0
              ELSE IF j2 <= Len(s) /\ s[j2] \in {101, 69}
                   THEN (IF SkipDigits(s, k) = k THEN 0 ELSE SkipDigits(s, k))
              ELSE j2
    IN  IF j3 = 0 THEN SyntaxError ELSE Parsed(VNum(SubSeq(s, i, j3 - 1)), j3)

RECURSIVE ParseValue(_, _)
RECURSIVE ParseArray(_, _, _)
RECURSIVE ParseObject(_, _, _)

\* the value that starts at position i (white space already skipped)
ParseValue(s, i) ==
    IF i > Len(s) THEN SyntaxError
    ELSE IF s[i] = 34 THEN ParseString(s, i + 1, <<>>)
    ELSE IF s[i] = 123 THEN
         (IF SkipWs(s, i + 1) <= Len(s) /\ s[SkipWs(s, i + 1)] = 125
          THEN Parsed(VJObj(<<>>), SkipWs(s, i + 1) + 1)
          ELSE ParseObject(s, SkipWs(s, i + 1), <<>>))
    ELSE IF s[i] = 91 THEN
         (IF SkipWs(s, i + 1) <= Len(s) /\ s[SkipWs(s, i + 1)] = 93
          THEN Parsed(VArr(<<>>), SkipWs(s, i + 1) + 1)
          ELSE ParseArray(s, SkipWs(s, i + 1), <<>>))
    ELSE IF s[i] = 45 \/ IsDigit(s[i]) THEN ParseNumber(s, i)
    ELSE IF StartsWith(s, i, <<110, 117, 108, 108>>) THEN Parsed(Null, i + 4)
    ELSE IF StartsWith(s, i, <<116, 114, 117, 101>>) THEN Parsed(VBool(TRUE), i + 4)
    ELSE IF StartsWith(s, i, <<102, 97, 108, 115, 101>>) THEN Parsed(VBool(FALSE), i + 5)
    ELSE SyntaxError

\* the elements of an array from position i on, up to the closing bracket
ParseArray(s, i, acc) ==
    LET r == ParseValue(s, i)
        j == SkipWs(s, r.pos)
    IN  IF ~r.ok \/ j > Len(s) THEN SyntaxError
        ELSE IF s[j] = 93 THEN Parsed(VArr(Append(acc, r.val)), j + 1)
        ELSE IF s[j] = 44 THEN ParseArray(s, SkipWs(s, j + 1), Append(acc, r.val))
        ELSE SyntaxError

\* the members of an object from position i on, up to the closing brace
ParseObject(s, i, acc) ==
    IF i > Len(s) \/ s[i] # 34 THEN SyntaxError
    ELSE LET k == ParseString(s, i + 1, <<>>)
             c == SkipWs(s, k.pos)
             r == ParseValue(s, SkipWs(s, c + 1))
             j == SkipWs(s, r.pos)
             members == Append(acc, [key |-> k.val.v, val |-> r.val])
         IN  IF ~k.ok \/ c > Len(s) \/ s[c] # 58 THEN SyntaxError
             ELSE IF ~r.ok \/ j > Len(s) THEN SyntaxError
             ELSE IF s[j] = 125 THEN Parsed(VJObj(members), j + 1)
             ELSE IF s[j] = 44 THEN ParseObject(s, SkipWs(s, j + 1), members)
             ELSE SyntaxError

\* JSON.parse(s): SyntaxError unless s is exactly one value
JSONparse(s) ==
    LET r == ParseValue(s, SkipWs(s, 1))
    IN  IF r.ok /\ SkipWs(s, r.pos) = Len(s) + 1 THEN r ELSE SyntaxError

-----------------------------------------------------------------------------
(* Cursor codec *)

\* JSON.stringify of {id, timestamp}; timestamp may be undefined
encodeCursor(data) == Base64Encode(Utf8Encode(ObjectText(data)))

\* the parsed JSON value whatever its shape, null when JSON.parse throws
decodeCursor(cursor) ==
    LET r == JSONparse(Utf8Decode(Base64Decode(cursor)))
    IN  IF r.ok THEN r.val ELSE Null

\* truthiness of a parsed value
Truthy(val) ==
    CASE val.t = "null" -> FALSE
      [] val.t = "undefined" -> FALSE
      [] val.t = "bool" -> val.v
      [] val.t = "str" -> val.v # <<>>
      [] val.t = "num" ->
            \E i \in DOMAIN val.v :
                /\ val.v[i] >= 49 /\ val.v[i] <= 57
                /\ \A j \in 1..i : val.v[j] \notin {101, 69}
      [] OTHER -> TRUE

\* val[key] for a parsed value: the last member of that name of an object,
\* undefined for a missing member and for a value that is no object
Member(val, key) ==
    IF val.t # "jobj" THEN Undefined
    ELSE LET hits == SelectSeq(val.v, LAMBDA m : m.key = Spell[key])
         IN  IF hits = <<>> THEN Undefined ELSE hits[Len(hits)].val

-----------------------------------------------------------------------------
(* Audit policy registry *)

auditConfig ==
    [Book |-> [track |-> TRUE, exclude |-> {"updatedAt"}, redact |-> {}],
     User |-> [track |-> TRUE, exclude |-> {"updatedAt"},
               redact |-> {"password", "apiKey"}]]

\* names the `in` operator finds on every object through Object.prototype
PrototypeKeys == {"constructor", "toString"}

\* entity in auditConfig && auditConfig[entity].track; the track member of
\* an inherited property is undefined, which is falsy
isAuditable(entity) ==
    /\ entity \in (DOMAIN auditConfig) \cup PrototypeKeys
    /\ IF entity \in DOMAIN auditConfig THEN auditConfig[entity].track ELSE FALSE

getEntityAuditConfig(entity) ==
    IF ~isAuditable(entity) THEN Null ELSE auditConfig[entity]

getAuditableEntities ==
    SelectSeq(<<"Book", "User">>, LAMBDA e : auditConfig[e].track)

-----------------------------------------------------------------------------
(* Diff engine *)

REDACTED == <<91, 82, 69, 68, 65, 67, 84, 69, 68, 93>>

EmptyObject == [k \in {} |-> Null]

\* obj[key], undefined when the object has no such key
Get(obj, key) == IF key \in DOMAIN obj THEN obj[key] ELSE Undefined

\* a processValue that forgets the exclude list
processValue_NoExclude(key, value, config) ==
    IF key \in config.redact THEN VStr(REDACTED) ELSE value

\* a processValue that redacts only values that are not null
processValue_RedactNonNull(key, value, config) ==
    IF key \in config.exclude THEN Null
    ELSE IF key \in config.redact /\ value # Null THEN VStr(REDACTED)
    ELSE value

processValue(key, value, config) ==
    IF key \in config.exclude THEN Null
    ELSE IF key \in config.redact THEN VStr(REDACTED)
    ELSE value

processObject(obj, config) ==
    IF obj = Null THEN EmptyObject
    ELSE LET kept == {k \in DOMAIN obj : processValue(k, obj[k], config) # Null}
         IN  [k \in kept |-> processValue(k, obj[k], config)]

computeDiff(entity, before, after) ==
    LET config == getEntityAuditConfig(entity) IN
    IF config = Null THEN Null
    ELSE
      LET processedBefore == processObject(before, config)
          processedAfter == processObject(after, config)
          allKeys == ObjectKeys(processedBefore)
                     \o KeysFrom(KeyOrder, DOMAIN processedAfter \ DOMAIN processedBefore)
      IN  [before |-> processedBefore,
           after |-> processedAfter,
           fieldsChanged |->
               SelectSeq(allKeys,
                         LAMBDA key : JSONstringify(Get(processedBefore, key))
                                      # JSONstringify(Get(processedAfter, key)))]

computeCreateDiff(entity, data) == computeDiff(entity, Null, data)

computeDeleteDiff(entity, data) == computeDiff(entity, data, Null)

computeUpdateDiff(entity, before, after) == computeDiff(entity, before, after)

-----------------------------------------------------------------------------
(* Audit log store: write path *)

Actions == {"create", "update", "delete", "restore", "login"}

\* what JSON.stringify keeps of a value: a Date becomes its ISO text
Serialized(val) == IF val.t = "date" THEN VStr(toISOString(val.v)) ELSE val

\* what JSON.stringify keeps of an object: members that are undefined go
SerializedObject(o) ==
    [k \in {x \in DOMAIN o : o[x] # Undefined} |-> Serialized(o[k])]

\* an object is truthy, null and undefined are not
Given(obj) == obj # Null /\ obj # Undefined

\* the diff createAuditLog computes, by action
DiffFor(params) ==
    IF params.action = "create" /\ Given(params.after)
    THEN computeCreateDiff(params.entity, params.after)
    ELSE IF params.action = "delete" /\ Given(params.before)
    THEN computeDeleteDiff(params.entity, params.before)
    ELSE IF /\ params.action \in {"update", "restore"}
            /\ Given(params.before) /\ Given(params.after)
    THEN computeUpdateDiff(params.entity, params.before, params.after)
    ELSE Null

\* the data of prisma.auditLog.create; id and timestamp are the values the
\* store assigns to the new row
AuditRow(params, requestId, id, timestamp, diff) ==
    LET joined == IF diff = Null THEN <<>>
                  ELSE JoinWith([i \in DOMAIN diff.fieldsChanged |->
                                    Spell[diff.fieldsChanged[i]]], <<44>>)
    IN  [id |-> id,
         timestamp |-> timestamp,
         entity |-> params.entity,
         entityId |-> params.entityId,
         action |-> params.action,
         actorId |-> params.actorId,
         requestId |-> IF requestId = Undefined THEN Null ELSE requestId,
         diff |-> IF diff = Null THEN Null
                  ELSE VObj([before |-> SerializedObject(diff.before),
                             after |-> SerializedObject(diff.after)]),
         fieldsChanged |-> IF joined = <<>> THEN Null ELSE VStr(joined)]

\* a createAuditLog without the isAuditable check
createAuditLog_Unchecked(params, requestId, id, timestamp) ==
    AuditRow(params, requestId, id, timestamp,
             IF isAuditable(params.entity) THEN DiffFor(params) ELSE Null)

\* the row createAuditLog persists and returns, null for an entity that is
\* not tracked
createAuditLog(params, requestId, id, timestamp) ==
    IF ~isAuditable(params.entity) THEN Null
    ELSE AuditRow(params, requestId, id, timestamp, DiffFor(params))

\* a store that keeps one row per entity id, the latest
Persist_Latest(log, entry) ==
    IF entry = Null THEN log
    ELSE {row \in log : row.entityId # entry.entityId} \cup {entry}

\* the table after createAuditLog: one row more, or the same table
Persist(log, entry) == IF entry = Null THEN log ELSE log \cup {entry}

-----------------------------------------------------------------------------
(* Audit log store: read path *)

defaultLimit == 10
maxLimit == 100

Min(a, b) == IF a <= b THEN a ELSE b
Max(a, b) == IF a >= b THEN a ELSE b

\* text order of two strings, as the store compares ids
RECURSIVE LexLess(_, _)
LexLess(a, b) ==
    IF b = <<>> THEN FALSE
    ELSE IF a = <<>> THEN TRUE
    ELSE IF a[1] # b[1] THEN a[1] < b[1]
    ELSE LexLess(Tail(a), Tail(b))

\* row a comes before row b under ORDER BY timestamp DESC, id DESC
Before(a, b) ==
    \/ a.timestamp > b.timestamp
    \/ a.timestamp = b.timestamp /\ LexLess(b.id, a.id)

RECURSIVE OrderBy(_)
OrderBy(rows) ==
    IF rows = {} THEN <<>>
    ELSE LET first == CHOOSE a \in rows : \A b \in rows \ {a} : Before(a, b)
         IN  <<first>> \o OrderBy(rows \ {first})

\* take: n: the first n rows, and for a negative n the last -n rows
Take(rows, n) ==
    IF n >= 0 THEN SubSeq(rows, 1, Min(n, Len(rows)))
    ELSE SubSeq(rows, Max(1, Len(rows) + n + 1), Len(rows))

\* String(n) for 0 <= n < 1000
String(n) ==
    IF n < 10 THEN <<48 + n>>
    ELSE IF n < 100 THEN <<48 + (n \div 10), 48 + (n % 10)>>
    ELSE <<48 + (n \div 100), 48 + ((n \div 10) % 10), 48 + (n % 10)>>

RECURSIVE DigitsValue(_, _)
DigitsValue(s, acc) ==
    IF s = <<>> \/ ~IsDigit(s[1]) THEN acc
    ELSE DigitsValue(Tail(s), acc * 10 + (s[1] - 48))

NaN == [t |-> "NaN", v |-> <<>>]
Num(n) == [t |-> "number", v |-> n]

\* parseInt(s, 10): leading white space, a sign, then digits; NaN without
\* a digit there
parseInt(s) ==
    LET body == SubSeq(s, SkipWs(s, 1), Len(s))
        neg == body # <<>> /\ body[1] = 45
        digits == IF body # <<>> /\ body[1] \in {43, 45} THEN Tail(body) ELSE body
    IN  IF digits = <<>> \/ ~IsDigit(digits[1]) THEN NaN
        ELSE Num(IF neg THEN 0 - DigitsValue(digits, 0) ELSE DigitsValue(digits, 0))

\* s.split(',')
RECURSIVE Split(_, _)
Split(s, cur) ==
    IF s = <<>> THEN <<cur>>
    ELSE IF s[1] = 44 THEN <<cur>> \o Split(Tail(s), <<>>)
    ELSE Split(Tail(s), Append(cur, s[1]))

RECURSIVE TrimLeft(_)
TrimLeft(s) == IF s # <<>> /\ IsWs(s[1]) THEN TrimLeft(Tail(s)) ELSE s

RECURSIVE TrimRight(_)
TrimRight(s) ==
    IF s # <<>> /\ IsWs(s[Len(s)]) THEN TrimRight(SubSeq(s, 1, Len(s) - 1)) ELSE s

Trim(s) == TrimRight(TrimLeft(s))

\* the store's `contains`: needle occurs in hay
Contains(hay, needle) ==
    \E i \in 1..(Len(hay) - Len(needle) + 1) :
        SubSeq(hay, i, i + Len(needle) - 1) = needle

NoFilters ==
    [entity |-> "", entityId |-> <<>>, actorId |-> <<>>, action |-> "",
     requestId |-> <<>>, from |-> <<>>, to |-> <<>>, fieldsChanged |-> <<>>,
     limit |-> <<>>, cursor |-> <<>>]

\* a where clause whose lower bound is gt where the code has gte
Where_Exclusive(row, filters) ==
    /\ filters.entity # "" => row.entity = filters.entity
    /\ filters.entityId # <<>> => row.entityId = filters.entityId
    /\ filters.actorId # <<>> => row.actorId = filters.actorId
    /\ filters.action # "" => row.action = filters.action
    /\ filters.requestId # <<>> => row.requestId = VStr(filters.requestId)
    /\ filters.from # <<>> => row.timestamp > NewDate(filters.from)
    /\ filters.to # <<>> => row.timestamp <= NewDate(filters.to)
    /\ filters.fieldsChanged # <<>> =>
          LET fields == Split(filters.fieldsChanged, <<>>)
          IN  \E i \in DOMAIN fields :
                  /\ row.fieldsChanged # Null
                  /\ Contains(row.fieldsChanged.v, Trim(fields[i]))

\* the where clause built from the filters (a filter that is undefined or
\* empty is falsy and restricts nothing)
Where(row, filters) ==
    /\ filters.entity # "" => row.entity = filters.entity
    /\ filters.entityId # <<>> => row.entityId = filters.entityId
    /\ filters.actorId # <<>> => row.actorId = filters.actorId
    /\ filters.action # "" => row.action = filters.action
    /\ filters.requestId # <<>> => row.requestId = VStr(filters.requestId)
    /\ filters.from # <<>> => row.timestamp >= NewDate(filters.from)
    /\ filters.to # <<>> => row.timestamp <= NewDate(filters.to)
    /\ filters.fieldsChanged # <<>> =>
          LET fields == Split(filters.fieldsChanged, <<>>)
          IN  \E i \in DOMAIN fields :
                  /\ row.fieldsChanged # Null
                  /\ Contains(row.fieldsChanged.v, Trim(fields[i]))

\* new Date(x) for the value x of cursorData.timestamp || '': a text is
\* parsed, a whole number is that many milliseconds, true is 1, an object
\* is no date
DateOf(val) ==
    IF ~Truthy(val) THEN NewDate(<<>>)
    ELSE IF val.t = "str" THEN NewDate(val.v)
    ELSE IF val.t = "num" /\ \A i \in DOMAIN val.v : IsDigit(val.v[i])
         THEN DigitsValue(val.v, 0)
    ELSE IF val.t = "bool" THEN 1
    ELSE InvalidDate

\* a cursor condition that compares the timestamps only
CursorCondition_ByTimestamp(row, cursorData) ==
    row.timestamp < DateOf(Member(cursorData, "timestamp"))

\* a cursor condition with <= where the code has <
CursorCondition_Inclusive(row, cursorData) ==
    LET date == DateOf(Member(cursorData, "timestamp"))
        id == Member(cursorData, "id")
    IN  \/ row.timestamp < date
        \/ row.timestamp = date /\ (id # Undefined => ~LexLess(id.v, row.id))

\* the cursor condition, for a decoded cursor that is truthy: rows strictly
\* after the cursor's row in the descending order
CursorCondition(row, cursorData) ==
    LET date == DateOf(Member(cursorData, "timestamp"))
        id == Member(cursorData, "id")
    IN  \/ row.timestamp < date
        \/ row.timestamp = date /\ (id # Undefined => LexLess(row.id, id.v))

\* the store refuses a query whose arguments are not of the column's type:
\* an Invalid Date, an id that is no string, a page size that is NaN
Refused(filters, cursorData, limit) ==
    \/ limit = NaN
    \/ filters.from # <<>> /\ NewDate(filters.from) = InvalidDate
    \/ filters.to # <<>> /\ NewDate(filters.to) = InvalidDate
    \/ /\ Truthy(cursorData)
       /\ \/ DateOf(Member(cursorData, "timestamp")) = InvalidDate
          \/ Member(cursorData, "id").t \notin {"str", "undefined"}

\* items.slice(0, n)
Slice(items, n) ==
    IF n >= 0 THEN SubSeq(items, 1, Min(n, Len(items)))
    ELSE SubSeq(items, 1, Max(0, Len(items) + n))

QueryError == [status |-> "error", items |-> <<>>, nextCursor |-> Undefined,
               hasMore |-> FALSE]

\* Math.min(parseInt(filters.limit || String(defaultLimit), 10), maxLimit)
LimitOf(filters) ==
    LET parsed == parseInt(IF filters.limit # <<>> THEN filters.limit
                           ELSE String(defaultLimit))
    IN  IF parsed = NaN THEN NaN ELSE Num(Min(parsed.v, maxLimit))

\* the cursor of the page after resultItems: its last row's id and timestamp
NextCursorOf(hasMore, resultItems) ==
    IF hasMore /\ Len(resultItems) > 0
    THEN VStr(encodeCursor(
             [id |-> VStr(resultItems[Len(resultItems)].id),
              timestamp |-> VStr(toISOString(resultItems[Len(resultItems)].timestamp))]))
    ELSE Undefined

\* the result built from the limit + 1 rows the store returned
PageOf(items, limit) ==
    LET hasMore == Len(items) > limit
        resultItems == IF hasMore THEN Slice(items, limit) ELSE items
    IN  [status |-> "ok",
         items |-> resultItems,
         nextCursor |-> NextCursorOf(hasMore, resultItems),
         hasMore |-> hasMore]

\* prisma.auditLog.findMany with finalWhere, the ordering and take: limit + 1
FindMany(filters, cursorData, limit, log) ==
    IF Refused(filters, cursorData, limit) THEN QueryError
    ELSE PageOf(Take(OrderBy({row \in log :
                                 /\ Where(row, filters)
                                 /\ Truthy(cursorData) => CursorCondition(row, cursorData)}),
                     limit.v + 1),
                limit.v)

findAuditLogs(filters, log) ==
    FindMany(filters,
             IF filters.cursor # <<>> THEN decodeCursor(filters.cursor) ELSE Null,
             LimitOf(filters),
             log)

-----------------------------------------------------------------------------
(* Book store *)

\* the name of a user, as the relations createdBy and updatedBy select it
UserName(userId) == <<110>> \o userId

\* the relation { id, name } for a user id column, null for a null column
Related(column) ==
    IF column = Null THEN Null
    ELSE VObj([id |-> column, name |-> VStr(UserName(column.v))])

\* obj with one more member
With(obj, key, val) ==
    [k \in DOMAIN obj \cup {key} |-> IF k = key THEN val ELSE obj[k]]

\* include: { createdBy }
WithCreator(row) == With(row, "createdBy", Related(row.createdById))

\* include: { createdBy, updatedBy }
WithRelations(row) == With(WithCreator(row), "updatedBy", Related(row.updatedById))

\* prisma.book.findFirst by id, deleted rows left out unless includeDeleted
findBookById(store, id, includeDeleted) ==
    IF id \in DOMAIN store /\ (includeDeleted \/ ~store[id].isDeleted.v)
    THEN WithRelations(store[id])
    ELSE Null

\* prisma.book.findUnique({ where: { id } }): the row without relations
findUnique(store, id) == IF id \in DOMAIN store THEN store[id] ELSE Null

\* the row prisma.book.create stores
NewBook(id, data, userId, time) ==
    [id |-> VStr(id), title |-> data.title, authors |-> data.authors,
     publishedBy |-> data.publishedBy, createdById |-> VStr(userId),
     updatedById |-> Null, isDeleted |-> VBool(FALSE),
     createdAt |-> VDate(time), updatedAt |-> VDate(time)]

\* an update that stamps createdAt as well
Updated_Recreated(row, data, userId, time) ==
    [k \in DOMAIN row |->
        IF k \in DOMAIN data /\ data[k] # Undefined THEN data[k]
        ELSE IF k = "updatedById" THEN VStr(userId)
        ELSE IF k \in {"updatedAt", "createdAt"} THEN VDate(time)
        ELSE row[k]]

\* the row after prisma.book.update with data { ...data, updatedById }
Updated(row, data, userId, time) ==
    [k \in DOMAIN row |->
        IF k \in DOMAIN data /\ data[k] # Undefined THEN data[k]
        ELSE IF k = "updatedById" THEN VStr(userId)
        ELSE IF k = "updatedAt" THEN VDate(time)
        ELSE row[k]]

\* a store that keeps the written row only
Put_Alone(store, id, row) == [i \in {id} |-> row]

\* the store with the row of id replaced or added
Put(store, id, row) ==
    [i \in DOMAIN store \cup {id} |-> IF i = id THEN row ELSE store[i]]

\* a check that finds changes in every update
hasChanges_Always(data, existing) == TRUE

\* Object.entries(data).some(value !== undefined && existing[key] !== value)
hasChanges(data, existing) ==
    \E k \in DOMAIN data : data[k] # Undefined /\ existing[k] # data[k]

-----------------------------------------------------------------------------
(* The system after seedDatabase: two users, sample books, an empty log *)

U1 == <<117, 49>>
U2 == <<117, 50>>

B1 == <<98, 49>>

Title1 == VStr(<<98>>)
Title2 == VStr(<<99>>)

\* the sample book, created by the admin without an audit entry
SeedBooks ==
    Put(EmptyObject, B1,
        NewBook(B1, [title |-> Title1, authors |-> Title1, publishedBy |-> Title1], U1, 0))

Slots == 1..2

IdleReq == [pc |-> "idle"]

InitSystem ==
    /\ books = SeedBooks
    /\ auditLog = {}
    /\ now = 0
    /\ req = [r \in Slots |-> IdleReq]
    /\ started = 0

-----------------------------------------------------------------------------
(* Calls of computeDiff on bounded inputs *)

DiffEntities == {"Book", "User", "Publisher"}

DiffKeys == {"title", "updatedAt", "password"}

\* the values a field takes: NumVals strings ("b", "c", ...) and null
DiffVals == {VStr(<<97 + i>>) : i \in 1..NumVals} \cup {Null}

DiffObjects == UNION {[ks -> DiffVals] : ks \in SUBSET DiffKeys}

NoDiffCall == [entity |-> "Book", before |-> Null, after |-> Null,
               result |-> Null, done |-> FALSE]

InitDiff ==
    dcall \in [entity : DiffEntities,
               before : DiffObjects \cup {Null},
               after : DiffObjects \cup {Null},
               result : {Null},
               done : {FALSE}]

ComputeDiffCall ==
    /\ ~dcall.done
    /\ dcall' = [dcall EXCEPT
                    !.result = computeDiff(dcall.entity, dcall.before, dcall.after),
                    !.done = TRUE]
    /\ UNCHANGED <<books, auditLog, now, req, started, ccall, rcall, page>>

NoCursorCall == [kind |-> "none", done |-> FALSE]

NoRecordCall == [done |-> FALSE]

NoPage == [status |-> "none"]

InitDiffCalls ==
    /\ InitDiff /\ InitSystem
    /\ ccall = NoCursorCall /\ rcall = NoRecordCall /\ page = NoPage

SpecDiff == InitDiffCalls /\ [][ComputeDiffCall]_vars

-----------------------------------------------------------------------------
(* Direct calls of createAuditLog, with any entity name *)


\* ids the store can assign to audit rows: "e1", "e2", ...
EntryIds(n) == {<<101, 48 + i>> : i \in 1..n}

RecordEntities == {"Book", "User", "Publisher", "constructor"}

RecordObjects ==
    {Null,
     [title |-> VStr(<<98>>), updatedAt |-> VDate(0)],
     [title |-> VStr(<<99>>), updatedAt |-> VDate(1)]}

DirectParams ==
    [entity : RecordEntities, entityId : {<<98, 49>>}, action : Actions,
     actorId : {U1}, before : RecordObjects, after : RecordObjects]

InitRecord ==
    rcall \in [params : DirectParams, result : {Null}, done : {FALSE}]

\* the parameters authService.login passes to createAuditLog
LoginParams(userId, email, loginTime) ==
    [entity |-> "User", entityId |-> userId, action |-> "login", actorId |-> userId,
     before |-> Undefined,
     after |-> [email |-> VStr(email), loginTime |-> VStr(toISOString(loginTime))]]

\* the log fills with the rows of earlier logins
EarlierLogin ==
    /\ ~rcall.done
    /\ Cardinality(auditLog) < MaxLog
    /\ \E userId \in {U1, U2},
          id \in EntryIds(MaxLog + 1) \ {row.id : row \in auditLog} :
          auditLog' = Persist(auditLog,
                              createAuditLog(LoginParams(userId, userId, now),
                                             Undefined, id, now))
    /\ UNCHANGED <<books, now, req, started, dcall, ccall, rcall, page>>

\* one call of createAuditLog outside any request (no ambient context)
RecordCall ==
    /\ ~rcall.done
    /\ \E id \in EntryIds(MaxLog + 1) \ {row.id : row \in auditLog} :
          LET result == createAuditLog(rcall.params, Undefined, id, now)
          IN  /\ auditLog' = Persist(auditLog, result)
              /\ rcall' = [rcall EXCEPT !.result = result, !.done = TRUE]
    /\ UNCHANGED <<books, now, req, started, dcall, ccall, page>>

NextRecord == EarlierLogin \/ RecordCall

InitRecordCalls ==
    /\ InitRecord /\ InitSystem
    /\ dcall = NoDiffCall /\ ccall = NoCursorCall /\ page = NoPage

SpecRecord == InitRecordCalls /\ [][NextRecord]_vars

-----------------------------------------------------------------------------
(* Calls of encodeCursor and decodeCursor, and a listing with the cursor *)

\* characters of an id: a, ", \, line feed, e-acute, the euro sign
CursorChars == {97, 34, 92, 10, 233, 8364}

CursorIds == UNION {[1..n -> CursorChars] : n \in 0..MaxIdLen}

\* CursorData: id a string, timestamp a string or absent
CursorPayloads ==
    [id : {VStr(s) : s \in CursorIds},
     timestamp : {Undefined} \cup {VStr(toISOString(ms)) : ms \in 0..MaxTime}]

Base64Of(text) == Base64Encode(Utf8Encode(text))

\* JSON texts of another shape than a cursor payload
OtherJson ==
    {<<52, 50>>,                                  \* 42
     <<48>>,                                      \* 0
     <<123, 125>>,                                \* {}
     <<91, 93>>,                                  \* []
     <<34, 97, 98, 34>>,                          \* "ab"
     <<116, 114, 117, 101>>,                      \* true
     <<102, 97, 108, 115, 101>>,                  \* false
     <<110, 117, 108, 108>>,                      \* null
     <<123, 34, 105, 100, 34, 58, 49, 125>>,      \* {"id":1}
     ObjectText([title |-> VStr(<<97>>)]),
     ObjectText([timestamp |-> VStr(toISOString(0))]),
     ObjectText([id |-> VStr(<<97>>), timestamp |-> VStr(<<120>>)])}

\* one cursor the program hands out
SampleCursor == encodeCursor([id |-> VStr(<<101, 49>>), timestamp |-> VStr(toISOString(0))])

\* cursor strings a client can send: the program's own cursor, the cursor
\* cut short or with a character replaced, other JSON, text that is not
\* base64
ClientCursors ==
    {SampleCursor}
    \cup {SubSeq(SampleCursor, 1, n) : n \in 1..(Len(SampleCursor) - 1)}
    \cup {[SampleCursor EXCEPT ![i] = 65] : i \in 1..MaxTamper}
    \cup {Base64Of(text) : text \in OtherJson}
    \cup {<<33, 33, 33>>, <<97>>}

InitCursor ==
    ccall \in
        [kind : {"encode"}, data : CursorPayloads, text : {<<>>}, output : {Null},
         page : {NoPage}, stage : {"start"}, done : {FALSE}]
        \cup
        [kind : {"decode"}, data : {Null}, text : ClientCursors, output : {Null},
         page : {NoPage}, stage : {"start"}, done : {FALSE}]

InitCursorCalls ==
    /\ InitCursor /\ InitSystem
    /\ dcall = NoDiffCall /\ rcall = NoRecordCall /\ page = NoPage

\* rows written by logins before the listing
CursorLogin ==
    /\ ccall.stage = "start"
    /\ Cardinality(auditLog) < MaxLog
    /\ \E id \in EntryIds(MaxLog + 1) \ {row.id : row \in auditLog} :
          auditLog' = Persist(auditLog,
                              createAuditLog(LoginParams(U1, U1, now), Undefined, id, now))
    /\ UNCHANGED <<books, now, req, started, dcall, ccall, rcall, page>>

EncodeCall ==
    /\ ccall.kind = "encode" /\ ccall.stage = "start"
    /\ ccall' = [ccall EXCEPT !.text = encodeCursor(ccall.data), !.stage = "encoded"]
    /\ UNCHANGED <<books, auditLog, now, req, started, dcall, rcall, page>>

DecodeCall ==
    /\ \/ ccall.kind = "encode" /\ ccall.stage = "encoded"
       \/ ccall.kind = "decode" /\ ccall.stage = "start"
    /\ ccall' = [ccall EXCEPT !.output = decodeCursor(ccall.text), !.stage = "decoded"]
    /\ UNCHANGED <<books, auditLog, now, req, started, dcall, rcall, page>>

\* findAuditLogs with the cursor and no other filter
ListCall ==
    /\ ccall.stage = "decoded"
    /\ ccall' = [ccall EXCEPT
                    !.page = findAuditLogs([NoFilters EXCEPT !.cursor = ccall.text],
                                           auditLog),
                    !.stage = "listed", !.done = TRUE]
    /\ UNCHANGED <<books, auditLog, now, req, started, dcall, rcall, page>>

NextCursor == CursorLogin \/ EncodeCall \/ DecodeCall \/ ListCall

SpecCursor == InitCursorCalls /\ [][NextCursor]_vars

-----------------------------------------------------------------------------
(* A client that lists the audit log page by page, following nextCursor *)

\* the parameters recordUpdate passes for a change of a book's title
TitleChange(actorId) ==
    [entity |-> "Book", entityId |-> B1, action |-> "update", actorId |-> actorId,
     before |-> [title |-> VStr(<<98>>)], after |-> [title |-> VStr(<<99>>)]]

PageFilters ==
    {NoFilters,
     [NoFilters EXCEPT !.entity = "Book"],
     [NoFilters EXCEPT !.actorId = U1],
     [NoFilters EXCEPT !.fieldsChanged = Spell["title"]]}

\* the limit parameter of the request: absent, or a number 0..MaxLimit
PageLimits == {<<>>} \cup {String(n) : n \in 0..MaxLimit}

InitPageCalls ==
    /\ InitSystem
    /\ dcall = NoDiffCall /\ ccall = NoCursorCall /\ rcall = NoRecordCall
    /\ page = NoPage

\* the log fills before the listing starts: logins and title changes, with
\* ids in any order and several rows within one millisecond
PageWrite ==
    /\ page.status = "none"
    /\ Cardinality(auditLog) < MaxPageLog
    /\ \E id \in EntryIds(MaxPageLog) \ {row.id : row \in auditLog},
          params \in {LoginParams(U1, U1, now), TitleChange(U2)} :
          auditLog' = Persist(auditLog, createAuditLog(params, Undefined, id, now))
    /\ UNCHANGED <<books, now, req, started, dcall, ccall, rcall, page>>

PageTick ==
    /\ page.status = "none"
    /\ now < MaxPageTime
    /\ now' = now + 1
    /\ UNCHANGED <<books, auditLog, req, started, dcall, ccall, rcall, page>>

StartListing ==
    /\ page.status = "none"
    /\ \E filters \in PageFilters, limit \in PageLimits :
          page' = [status |-> "paging", filters |-> [filters EXCEPT !.limit = limit],
                   cursor |-> <<>>, items |-> <<>>, fetched |-> 0]
    /\ UNCHANGED <<books, auditLog, now, req, started, dcall, ccall, rcall>>

\* what the client does with an answer r: it keeps the items and goes on
\* while the answer has hasMore and a nextCursor
Follow(listing, r) ==
    [listing EXCEPT
        !.status = IF r.status = "error" THEN "error"
                   ELSE IF ~r.hasMore THEN "done"
                   ELSE IF r.nextCursor = Undefined THEN "stuck"
                   ELSE "paging",
        !.cursor = IF r.nextCursor = Undefined THEN <<>> ELSE r.nextCursor.v,
        !.items = listing.items \o r.items,
        !.fetched = listing.fetched + 1]

\* one request: the page after the cursor
FetchPage ==
    /\ page.status = "paging"
    /\ page' = Follow(page, findAuditLogs([page.filters EXCEPT !.cursor = page.cursor],
                                          auditLog))
    /\ UNCHANGED <<books, auditLog, now, req, started, dcall, ccall, rcall>>

NextPage == PageWrite \/ PageTick \/ StartListing \/ FetchPage

SpecPage == InitPageCalls /\ [][NextPage]_vars

-----------------------------------------------------------------------------
(* Requests: each slot runs one handler at a time, a step per await *)

BookIds == {B1, <<98, 50>>}
Users == {U1, U2}

\* the body of POST /api/books
CreateDtos == {[title |-> Title1, authors |-> Title1, publishedBy |-> Title1]}

\* bodies of PATCH /api/books/:id
UpdateDtos ==
    {[title |-> Title1], [title |-> Title2], [authors |-> Title2],
     [title |-> Title2, authors |-> Title1]}

BookOps == {"create", "update", "delete", "restore"}

\* the ambient context of a call: a request that passed authentication, a
\* request whose user id is not set, or no context at all
Contexts(requestId, userId) ==
    {[requestId |-> VStr(requestId), userId |-> VStr(userId)],
     [requestId |-> VStr(requestId), userId |-> Undefined],
     Undefined}

getRequestId(ctx) == IF ctx = Undefined THEN Undefined ELSE ctx.requestId

\* a context that never carries a user id
getUserId_Unset(ctx) == Undefined

\* a context that answers with an anonymous actor when none is set
getUserId_Anonymous(ctx) ==
    IF ctx = Undefined \/ ctx.userId = Undefined THEN VStr(<<97>>) ELSE ctx.userId

getUserId(ctx) == IF ctx = Undefined THEN Undefined ELSE ctx.userId

\* the id of the n-th request: "r1", "r2", ...
RequestId(n) == <<114, 48 + n>>

\* a handler that has just been entered
Entered(op, id, data, userId, ctx, pc) ==
    [pc |-> pc, op |-> op, id |-> id, data |-> data, userId |-> userId, ctx |-> ctx,
     before |-> Null, book |-> Null, result |-> "pending", body |-> Null,
     auditFailed |-> FALSE, books0 |-> books, log0 |-> auditLog]

\* a handler that catches every error and returns the book it has
Failed_Swallowed(q, code) == [q EXCEPT !.pc = "done", !.result = "ok", !.body = q.book]

\* a handler that has thrown: AppError codes, or "error" for any other error
Failed(q, code) == [q EXCEPT !.pc = "done", !.result = code]

\* a handler that has returned body
Returned(q, body) == [q EXCEPT !.pc = "done", !.result = "ok", !.body = body]

\* creates that have not written yet: each will need a fresh book id
PendingCreates == {s \in Slots : req[s].pc = "write" /\ req[s].op = "create"}

\* a call of bookService.createBook / updateBook / deleteBook / restoreBook
Receive(r) ==
    /\ req[r].pc = "idle"
    /\ started < MaxRequests
    /\ \E op \in BookOps, id \in BookIds, userId \in Users :
       \E ctx \in Contexts(RequestId(started + 1), userId),
          data \in (IF op = "create" THEN CreateDtos
                    ELSE IF op = "update" THEN UpdateDtos ELSE {EmptyObject}) :
          /\ op = "create" =>
                /\ id = B1
                /\ Cardinality(DOMAIN books) + Cardinality(PendingCreates)
                      < Cardinality(BookIds)
          /\ req' = [req EXCEPT ![r] =
                        Entered(op, IF op = "create" THEN <<>> ELSE id, data, userId, ctx,
                                IF op = "create" THEN "write" ELSE "service")]
    /\ started' = started + 1
    /\ UNCHANGED <<books, auditLog, now, dcall, ccall, rcall, page>>

\* POST /api/auth/login and GET /api/audits: requests with a context whose
\* user id is not set (login) or is set (listing)
ReceiveOther(r) ==
    /\ req[r].pc = "idle"
    /\ started < MaxRequests
    /\ \E op \in {"login", "list"}, userId \in Users :
          req' = [req EXCEPT ![r] =
                    Entered(op, <<>>, EmptyObject, userId,
                            [requestId |-> VStr(RequestId(started + 1)),
                             userId |-> IF op = "login" THEN Undefined ELSE VStr(userId)],
                            "handler")]
    /\ started' = started + 1
    /\ UNCHANGED <<books, auditLog, now, dcall, ccall, rcall, page>>

\* a service that does not look at the isDeleted flag
Checked_FlagIgnored(q, existing) ==
    IF existing = Null THEN Failed(q, "NOT_FOUND")
    ELSE IF q.op = "update" /\ ~hasChanges(q.data, existing) THEN Returned(q, existing)
    ELSE [q EXCEPT !.pc = "read"]

\* a service that leaves the existence of the book to the repository
Checked_Unguarded(q, existing) ==
    IF existing = Null THEN [q EXCEPT !.pc = "read"]
    ELSE IF q.op = "update" /\ ~hasChanges(q.data, existing) THEN Returned(q, existing)
    ELSE IF q.op = "delete" /\ existing.isDeleted.v THEN Failed(q, "ALREADY_DELETED")
    ELSE IF q.op = "restore" /\ ~existing.isDeleted.v THEN Failed(q, "NOT_DELETED")
    ELSE [q EXCEPT !.pc = "read"]

\* the checks of the service before it calls the repository
Checked(q, existing) ==
    IF existing = Null THEN Failed(q, "NOT_FOUND")
    ELSE IF q.op = "update" /\ ~hasChanges(q.data, existing) THEN Returned(q, existing)
    ELSE IF q.op = "delete" /\ existing.isDeleted.v THEN Failed(q, "ALREADY_DELETED")
    ELSE IF q.op = "restore" /\ ~existing.isDeleted.v THEN Failed(q, "NOT_DELETED")
    ELSE [q EXCEPT !.pc = "read"]

\* await bookRepo.findBookById(id) in updateBook, (id, true) in deleteBook
\* and restoreBook
FindExisting(r) ==
    /\ req[r].pc = "service"
    /\ req' = [req EXCEPT ![r] =
                  Checked(req[r], findBookById(books, req[r].id, req[r].op # "update"))]
    /\ UNCHANGED <<books, auditLog, now, started, dcall, ccall, rcall, page>>

\* what the repository does with the row it read
BeforeRead(q, before) ==
    IF before = Null THEN Failed(q, "error")
    ELSE [q EXCEPT !.pc = "write", !.before = before]

\* await prisma.book.findUnique({ where: { id } })
ReadBefore(r) ==
    /\ req[r].pc = "read"
    /\ req' = [req EXCEPT ![r] = BeforeRead(req[r], findUnique(books, req[r].id))]
    /\ UNCHANGED <<books, auditLog, now, started, dcall, ccall, rcall, page>>

\* the data of the repository's prisma.book.update
WriteData(q) ==
    IF q.op = "update" THEN q.data
    ELSE [isDeleted |-> VBool(q.op = "delete")]

\* await prisma.book.create / prisma.book.update
WriteBook(r) ==
    /\ req[r].pc = "write"
    /\ \E id \in (IF req[r].op = "create" THEN BookIds \ DOMAIN books ELSE {req[r].id}) :
          /\ id \in DOMAIN books \/ req[r].op = "create"
          /\ books' = Put(books, id,
                          IF req[r].op = "create"
                          THEN NewBook(id, req[r].data, req[r].userId, now)
                          ELSE Updated(books[id], WriteData(req[r]), req[r].userId, now))
          /\ req' = [req EXCEPT ![r].pc = "audit", ![r].id = id,
                                ![r].book = IF req[r].op = "create"
                                            THEN WithCreator(books'[id])
                                            ELSE WithRelations(books'[id])]
    /\ UNCHANGED <<auditLog, now, started, dcall, ccall, rcall, page>>

\* the parameters recordCreate / recordUpdate / recordDelete / recordRestore
\* pass to createAuditLog
RecordParams(q, actorId) ==
    [entity |-> "Book", entityId |-> q.book.id.v, action |-> q.op, actorId |-> actorId.v,
     before |-> IF q.op = "create" THEN Undefined ELSE q.before,
     after |-> IF q.op = "delete" THEN Undefined ELSE q.book]

\* await recordCreate / recordUpdate / recordDelete / recordRestore: nothing
\* without an actor in the context; the store may refuse the write
RecordAuditFrom(r, pool) ==
    /\ req[r].pc = "audit"
    /\ \/ /\ getUserId(req[r].ctx) = Undefined
          /\ req' = [req EXCEPT ![r] = Returned(req[r], req[r].book)]
          /\ UNCHANGED auditLog
       \/ /\ getUserId(req[r].ctx) # Undefined
          /\ req' = [req EXCEPT ![r] = Returned(req[r], req[r].book)]
          /\ \E id \in pool \ {row.id : row \in auditLog} :
                auditLog' = Persist(auditLog,
                                    createAuditLog(RecordParams(req[r], getUserId(req[r].ctx)),
                                                   getRequestId(req[r].ctx), id, now))
       \/ /\ getUserId(req[r].ctx) # Undefined
          /\ req' = [req EXCEPT ![r] = [Failed(req[r], "error") EXCEPT !.auditFailed = TRUE]]
          /\ UNCHANGED auditLog
    /\ UNCHANGED <<books, now, started, dcall, ccall, rcall, page>>

\* the entry ids the store can draw while MaxRequests requests are served
RecordAudit(r) == RecordAuditFrom(r, EntryIds(MaxRequests))

\* authService.login after the password check: the login entry
Login(r) ==
    /\ req[r].pc = "handler" /\ req[r].op = "login"
    /\ req' = [req EXCEPT ![r] = Returned(req[r], Null)]
    /\ \E id \in EntryIds(MaxRequests) \ {row.id : row \in auditLog} :
          auditLog' = Persist(auditLog,
                              createAuditLog(LoginParams(req[r].userId, req[r].userId, now),
                                             getRequestId(req[r].ctx), id, now))
    /\ UNCHANGED <<books, now, started, dcall, ccall, rcall, page>>

\* auditService.getAuditLogs without filters
ListAudits(r) ==
    /\ req[r].pc = "handler" /\ req[r].op = "list"
    /\ req' = [req EXCEPT ![r] = Returned(req[r], findAuditLogs(NoFilters, auditLog))]
    /\ UNCHANGED <<books, auditLog, now, started, dcall, ccall, rcall, page>>

\* the response is sent; the slot is free for the next request
Respond(r) ==
    /\ req[r].pc = "done"
    /\ req' = [req EXCEPT ![r] = IdleReq]
    /\ UNCHANGED <<books, auditLog, now, started, dcall, ccall, rcall, page>>

\* the clock advances
Tick ==
    /\ now < MaxTime
    /\ now' = now + 1
    /\ UNCHANGED <<books, auditLog, req, started, dcall, ccall, rcall, page>>

InitRequests ==
    /\ InitSystem
    /\ dcall = NoDiffCall /\ ccall = NoCursorCall /\ rcall = NoRecordCall /\ page = NoPage

Step(r) ==
    \/ FindExisting(r) \/ ReadBefore(r) \/ WriteBook(r) \/ RecordAudit(r)
    \/ Login(r) \/ ListAudits(r) \/ Respond(r)

\* a new request runs in the first free slot
FirstFree(r) == req[r].pc = "idle" /\ \A s \in 1..(r - 1) : req[s].pc # "idle"

\* requests arrive at any time and their handlers interleave at the awaits
Next ==
    \/ Tick
    \/ \E r \in Slots : (FirstFree(r) /\ (Receive(r) \/ ReceiveOther(r))) \/ Step(r)

Spec == InitRequests /\ [][Next]_vars

\* one request at a time: a request arrives when no handler is running
Alone == \A s \in Slots : req[s].pc = "idle"

NextSeq == Tick \/ (Alone /\ (Receive(1) \/ ReceiveOther(1))) \/ Step(1)

SpecSeq == InitRequests /\ [][NextSeq]_vars

-----------------------------------------------------------------------------
(* One book's life: an actor creates a book, retitles it, deletes it and
   restores it, one request after the other, then lists its entries *)

MaxStoryTime == 3

StoryOps == <<"create", "update", "delete", "restore">>

\* the book the story is about: the one that is not seeded
StoryBooks == DOMAIN books \ DOMAIN SeedBooks

\* the next request of the story, sent once the previous one has succeeded
StoryReceive ==
    /\ started < Len(StoryOps)
    /\ page.status = "none"
    /\ IF started = 0 THEN req[1].pc = "idle"
       ELSE req[1].pc = "done" /\ req[1].result = "ok"
    /\ LET op == StoryOps[started + 1]
       IN  \E id \in (IF op = "create" THEN {<<>>} ELSE StoryBooks) :
              req' = [req EXCEPT ![1] =
                        Entered(op, id,
                                IF op = "create" THEN [title |-> Title1, authors |-> Title1,
                                                       publishedBy |-> Title1]
                                ELSE IF op = "update" THEN [title |-> Title2]
                                ELSE EmptyObject,
                                U1,
                                [requestId |-> VStr(RequestId(started + 1)),
                                 userId |-> VStr(U1)],
                                IF op = "create" THEN "write" ELSE "service")]
    /\ started' = started + 1
    /\ UNCHANGED <<books, auditLog, now, dcall, ccall, rcall, page>>

StoryTick ==
    /\ now < MaxStoryTime
    /\ now' = now + 1
    /\ UNCHANGED <<books, auditLog, req, started, dcall, ccall, rcall, page>>

\* the query of the listing that ends the story: the entries of the book, or
\* the entries that changed one of the listed fields
StoryFilters(id) ==
    {[NoFilters EXCEPT !.entityId = id],
     [NoFilters EXCEPT !.fieldsChanged = Spell["title"]],
     [NoFilters EXCEPT !.fieldsChanged = Spell["createdBy"]],
     [NoFilters EXCEPT !.fieldsChanged = Spell["title"] \o <<44>> \o Spell["updatedBy"]],
     [NoFilters EXCEPT !.fieldsChanged = Spell["updatedById"], !.action = "update"]}

\* GET /api/audits after a request of the story has succeeded
StoryList ==
    /\ page.status = "none"
    /\ req[1].pc = "done" /\ req[1].result = "ok"
    /\ \E id \in StoryBooks : \E filters \in StoryFilters(id) :
          page' = Follow([status |-> "paging", filters |-> filters,
                          cursor |-> <<>>, items |-> <<>>, fetched |-> 0],
                         findAuditLogs(filters, auditLog))
    /\ UNCHANGED <<books, auditLog, now, req, started, dcall, ccall, rcall>>

NextStory ==
    \/ StoryTick \/ StoryReceive \/ StoryList
    \/ FindExisting(1) \/ ReadBefore(1) \/ WriteBook(1)
    \/ RecordAuditFrom(1, EntryIds(Len(StoryOps)))

SpecStory == InitRequests /\ [][NextStory]_vars

-----------------------------------------------------------------------------
(* Audit service: getAuditLogs validates the filters, then queries *)

\* the service's answer: an AppError code, or the result of the query
Rejected(code) == [code |-> code, queried |-> FALSE, result |-> Null]
Queried(result) == [code |-> "", queried |-> TRUE, result |-> result]

\* a service that passes every filter on to the repository
getAuditLogs_Unvalidated(filters, log) == Queried(findAuditLogs(filters, log))

\* fromDate > toDate: false when either is an Invalid Date
DateAfter(fromDate, toDate) ==
    fromDate # InvalidDate /\ toDate # InvalidDate /\ fromDate > toDate

getAuditLogs(filters, log) ==
    IF filters.entity # "" /\ filters.entity \notin Range(getAuditableEntities)
    THEN Rejected("INVALID_ENTITY")
    ELSE IF /\ filters.from # <<>> /\ filters.to # <<>>
            /\ DateAfter(NewDate(filters.from), NewDate(filters.to))
    THEN Rejected("INVALID_DATE_RANGE")
    ELSE Queried(findAuditLogs(filters, log))

\* entity filters: none, tracked ones, one that is not configured, and one
\* that names a member of Object.prototype
ServiceEntities == {"", "Book", "User", "Publisher", "toString"}

\* date filters: none, the instants of the clock, and a text that is no date
ServiceDates == {<<>>, <<120>>} \cup {toISOString(ms) : ms \in 0..MaxPageTime}

ServiceFilters ==
    {[NoFilters EXCEPT !.entity = e, !.from = f, !.to = t] :
        e \in ServiceEntities, f \in ServiceDates, t \in ServiceDates}

\* one call of auditService.getAuditLogs
GetAuditLogsCall ==
    /\ page.status = "none"
    /\ \E filters \in ServiceFilters :
          page' = [status |-> "called", filters |-> filters,
                   answer |-> getAuditLogs(filters, auditLog)]
    /\ UNCHANGED <<books, auditLog, now, req, started, dcall, ccall, rcall>>

NextService == PageWrite \/ PageTick \/ GetAuditLogsCall

SpecService == InitPageCalls /\ [][NextService]_vars

-----------------------------------------------------------------------------
(* Request contexts: requestContextMiddleware opens a context for each
   request, the auth middleware sets the user id in it, the handler runs *)

\* a store in which every running request shares one context
setUserId_Shared(reqs, r, userId) ==
    [s \in DOMAIN reqs |->
        IF reqs[s].pc # "idle" /\ reqs[s].ctx # Undefined
        THEN [reqs[s] EXCEPT !.ctx.userId = VStr(userId)]
        ELSE reqs[s]]

\* setUserId called in the execution of request r: the store of that
\* execution is the context its requestContextMiddleware created
setUserId(reqs, r, userId) ==
    IF reqs[r].ctx # Undefined
    THEN [reqs EXCEPT ![r].ctx.userId = VStr(userId)]
    ELSE reqs

\* the x-request-id header of the n-th request, or the uuid generated for it;
\* a client may send an id another request has used
RequestIdsFor(n) == {RequestId(n), RequestId(1)}

\* requestContextMiddleware: the context holds the request id and no user id
ContextReceive(r) ==
    /\ req[r].pc = "idle"
    /\ started < MaxRequests
    /\ \E op \in {"update", "delete"}, userId \in Users,
          rid \in RequestIdsFor(started + 1) :
          req' = [req EXCEPT ![r] =
                    With(Entered(op, B1,
                                 IF op = "update" THEN [title |-> Title2] ELSE EmptyObject,
                                 userId,
                                 [requestId |-> VStr(rid), userId |-> Undefined],
                                 "auth"),
                         "rid", rid)]
    /\ started' = started + 1
    /\ UNCHANGED <<books, auditLog, now, dcall, ccall, rcall, page>>

\* authMiddleware: after the user lookup, setUserId(user.id) and next()
Authenticate(r) ==
    /\ req[r].pc = "auth"
    /\ req' = [setUserId(req, r, req[r].userId) EXCEPT ![r].pc = "service"]
    /\ UNCHANGED <<books, auditLog, now, started, dcall, ccall, rcall, page>>

NextContext ==
    \/ Tick
    \/ \E r \in Slots :
          \/ FirstFree(r) /\ ContextReceive(r)
          \/ Authenticate(r) \/ FindExisting(r) \/ ReadBefore(r) \/ WriteBook(r)
          \/ RecordAudit(r) \/ Respond(r)

SpecContext == InitRequests /\ [][NextContext]_vars

-----------------------------------------------------------------------------
(* Page sizes: what the book listing and the audit listing make of the
   limit parameter of the request *)

MaxRequested == 120
MaxBelow == 2

\* the text of the limit parameter for the number n
LimitText(n) == IF n < 0 THEN <<45>> \o String(0 - n) ELSE String(n)

\* Math.min(Math.max(parseInt(query.limit || String(defaultLimit), 10), 1), maxLimit)
parsePaginationParams(query) ==
    LET parsed == parseInt(IF query.limit # <<>> THEN query.limit
                           ELSE String(defaultLimit))
    IN  [limit |-> IF parsed = NaN THEN NaN
                   ELSE Num(Min(Max(parsed.v, 1), maxLimit)),
         cursor |-> query.cursor]

\* findBooks: takeLimit = Math.min(limit, maxLimit)
takeLimit(params) ==
    IF params.limit = NaN THEN NaN ELSE Num(Min(params.limit.v, maxLimit))

\* auditFilterSchema.limit: digits only, then a number from 1 to 100; the
\* parse throws otherwise
ParsedLimit(text) ==
    IF text = <<>> THEN [ok |-> TRUE, value |-> Undefined]
    ELSE IF \E i \in DOMAIN text : ~IsDigit(text[i]) THEN [ok |-> FALSE, value |-> Undefined]
    ELSE IF DigitsValue(text, 0) < 1 \/ DigitsValue(text, 0) > 100
         THEN [ok |-> FALSE, value |-> Undefined]
    ELSE [ok |-> TRUE, value |-> Num(DigitsValue(text, 0))]

\* listAudits: the validated query, then limit: String(validatedQuery.limit || 10),
\* then the limit of findAuditLogs; "rejected" when the validation throws
listAuditsLimit(text) ==
    IF ~ParsedLimit(text).ok THEN [t |-> "rejected", v |-> <<>>]
    ELSE LimitOf([NoFilters EXCEPT
                    !.limit = IF ParsedLimit(text).value = Undefined THEN String(10)
                              ELSE String(ParsedLimit(text).value.v)])

\* one request of each listing with the same limit parameter
LimitCall ==
    /\ page.status = "none"
    /\ \E text \in {<<>>} \cup {LimitText(n) : n \in (0 - MaxBelow)..MaxRequested} :
          page' = [status |-> "limits", requested |-> text,
                   books |-> takeLimit(parsePaginationParams([limit |-> text,
                                                              cursor |-> <<>>])),
                   audits |-> LimitOf([NoFilters EXCEPT !.limit = text]),
                   route |-> listAuditsLimit(text)]
    /\ UNCHANGED <<books, auditLog, now, req, started, dcall, ccall, rcall>>

SpecLimit == InitPageCalls /\ [][LimitCall]_vars

-----------------------------------------------------------------------------
(* Paging over a log that grows: entries are written between the fetches *)

MaxGrowLog == 4

\* the first request of a listing; first will hold the log as it is when
\* the first page is fetched
GrowStart ==
    /\ page.status = "none"
    /\ \E filters \in PageFilters, limit \in PageLimits :
          page' = [status |-> "paging", filters |-> [filters EXCEPT !.limit = limit],
                   cursor |-> <<>>, items |-> <<>>, fetched |-> 0, first |-> {}]
    /\ UNCHANGED <<books, auditLog, now, req, started, dcall, ccall, rcall>>

\* an entry written, or the clock advancing, while the client is paging
GrowWrite ==
    /\ page.status = "paging" /\ page.fetched > 0
    /\ Cardinality(auditLog) < MaxGrowLog
    /\ \E id \in EntryIds(MaxGrowLog) \ {row.id : row \in auditLog},
          params \in {LoginParams(U1, U1, now), TitleChange(U2)} :
          auditLog' = Persist(auditLog, createAuditLog(params, Undefined, id, now))
    /\ UNCHANGED <<books, now, req, started, dcall, ccall, rcall, page>>

GrowTick ==
    /\ page.status = "paging" /\ page.fetched > 0
    /\ now < MaxPageTime
    /\ now' = now + 1
    /\ UNCHANGED <<books, auditLog, req, started, dcall, ccall, rcall, page>>

\* one request: the page after the cursor, over the log as it is now
GrowFetch ==
    /\ page.status = "paging"
    /\ page' = [Follow(page, findAuditLogs([page.filters EXCEPT !.cursor = page.cursor],
                                           auditLog))
                  EXCEPT !.first = IF page.fetched = 0 THEN auditLog ELSE @]
    /\ UNCHANGED <<books, auditLog, now, req, started, dcall, ccall, rcall>>

NextGrow == PageWrite \/ PageTick \/ GrowStart \/ GrowWrite \/ GrowTick \/ GrowFetch

SpecGrow == InitPageCalls /\ [][NextGrow]_vars

-----------------------------------------------------------------------------
(* Book listing: findBooks pages over the books while they change *)

MaxBooks == 3
MaxChanges == 2

\* a listing ordered by the time of the last update
BookKey_ByUpdate(row) == [timestamp |-> row.updatedAt.v, id |-> row.id.v]

\* what the ordering and the cursor of findBooks look at: createdAt and id
BookKey(row) == [timestamp |-> row.createdAt.v, id |-> row.id.v]

\* where: includeDeleted ? {} : { isDeleted: false }
Listed(store, includeDeleted) ==
    {id \in DOMAIN store : includeDeleted \/ ~store[id].isDeleted.v}

\* the books of the answer, with the relations findMany includes
BookPage(r, store) ==
    [r EXCEPT !.items = [i \in DOMAIN r.items |-> WithRelations(store[r.items[i].id])]]

findBooks(params, includeDeleted, store) ==
    BookPage(FindMany(NoFilters,
                      IF params.cursor # <<>> THEN decodeCursor(params.cursor) ELSE Null,
                      takeLimit(params),
                      {BookKey(store[id]) : id \in Listed(store, includeDeleted)}),
             store)

ListBookIds == {<<98, 48 + i>> : i \in 1..MaxBooks}

\* the writes of createBook, updateBook, deleteBook and restoreBook
BookWrites(store, time) ==
    {Put(store, id, NewBook(id, [title |-> Title1, authors |-> Title1,
                                 publishedBy |-> Title1], U1, time)) :
        id \in ListBookIds \ DOMAIN store}
    \cup {Put(store, id, Updated(store[id], [title |-> Title2], U1, time)) :
            id \in {i \in DOMAIN store : ~store[i].isDeleted.v}}
    \cup {Put(store, id, Updated(store[id], [isDeleted |-> VBool(~store[id].isDeleted.v)],
                                 U1, time)) :
            id \in DOMAIN store}

\* books are written before the listing starts
BooksWrite ==
    /\ page.status = "none"
    /\ \E store \in BookWrites(books, now) : books' = store
    /\ UNCHANGED <<auditLog, now, req, started, dcall, ccall, rcall, page>>

\* GET /api/books with a limit; stable will hold the books that are listed
\* at every moment from the first fetch on
BooksStart ==
    /\ page.status = "none"
    /\ \E limit \in {<<>>, String(1), String(2)} :
          page' = [status |-> "paging", limit |-> limit, cursor |-> <<>>, items |-> <<>>,
                   fetched |-> 0, stable |-> {}, changes |-> 0]
    /\ UNCHANGED <<books, auditLog, now, req, started, dcall, ccall, rcall>>

\* a write of another request between two fetches
BooksChange ==
    /\ page.status = "paging" /\ page.fetched > 0
    /\ page.changes < MaxChanges
    /\ \E store \in BookWrites(books, now) :
          /\ books' = store
          /\ page' = [page EXCEPT !.changes = @ + 1,
                                  !.stable = @ \cap Listed(store, FALSE)]
    /\ UNCHANGED <<auditLog, now, req, started, dcall, ccall, rcall>>

BooksTick ==
    /\ page.status \in {"none", "paging"}
    /\ now < MaxPageTime
    /\ now' = now + 1
    /\ UNCHANGED <<books, auditLog, req, started, dcall, ccall, rcall, page>>

\* listBooks: parsePaginationParams, then findBooks without deleted books
BooksFetch ==
    /\ page.status = "paging"
    /\ page' = [Follow(page, findBooks(parsePaginationParams([limit |-> page.limit,
                                                              cursor |-> page.cursor]),
                                       FALSE, books))
                  EXCEPT !.stable = IF page.fetched = 0 THEN Listed(books, FALSE) ELSE @]
    /\ UNCHANGED <<books, auditLog, now, req, started, dcall, ccall, rcall>>

NextBooks == BooksWrite \/ BooksStart \/ BooksChange \/ BooksTick \/ BooksFetch

SpecBooks == InitPageCalls /\ [][NextBooks]_vars

-----------------------------------------------------------------------------
(* Single results of findAuditLogs and findBooks, for each limit and for a
   cursor that is absent or names a stored row *)

\* the cursors a listing has handed out for the rows
CursorsOf(rows) ==
    {<<>>} \cup {encodeCursor([id |-> VStr(row.id),
                               timestamp |-> VStr(toISOString(row.timestamp))]) : row \in rows}

\* one call of findAuditLogs
AuditResult ==
    /\ page.status = "none"
    /\ \E filters \in PageFilters, limit \in PageLimits, cursor \in CursorsOf(auditLog) :
          page' = [status |-> "result", kind |-> "audits",
                   limit |-> LimitOf([filters EXCEPT !.limit = limit]),
                   answer |-> findAuditLogs([filters EXCEPT !.limit = limit,
                                                            !.cursor = cursor], auditLog)]
    /\ UNCHANGED <<books, auditLog, now, req, started, dcall, ccall, rcall>>

\* one call of findBooks, with the limit a number
BooksResult ==
    /\ page.status = "none"
    /\ \E n \in 0..MaxLimit, includeDeleted \in BOOLEAN,
          cursor \in CursorsOf({BookKey(books[id]) : id \in DOMAIN books}) :
          page' = [status |-> "result", kind |-> "books",
                   limit |-> takeLimit([limit |-> Num(n), cursor |-> cursor]),
                   answer |-> findBooks([limit |-> Num(n), cursor |-> cursor],
                                        includeDeleted, books)]
    /\ UNCHANGED <<books, auditLog, now, req, started, dcall, ccall, rcall>>

\* entries are written, or books are, and then one call is made
NextResult ==
    \/ books = SeedBooks /\ PageWrite
    \/ PageTick
    \/ auditLog = {} /\ BooksWrite
    \/ AuditResult \/ BooksResult

SpecResult == InitPageCalls /\ [][NextResult]_vars

-----------------------------------------------------------------------------
(* A client that lists the audit log under each of the filters *)

\* the log fills before the listing starts: logins and changes of a book,
\* recorded inside a request or outside one
FilterWrite ==
    /\ page.status = "none"
    /\ Cardinality(auditLog) < MaxPageLog
    /\ \E id \in EntryIds(MaxPageLog) \ {row.id : row \in auditLog},
          params \in {LoginParams(U1, U1, now), TitleChange(U1), TitleChange(U2)},
          requestId \in {Undefined, VStr(RequestId(1))} :
          auditLog' = Persist(auditLog, createAuditLog(params, requestId, id, now))
    /\ UNCHANGED <<books, now, req, started, dcall, ccall, rcall, page>>

\* the queries: none of the filters, each filter alone, and several at once
FilterChoices ==
    {NoFilters,
     [NoFilters EXCEPT !.entity = "Book"],
     [NoFilters EXCEPT !.entityId = B1],
     [NoFilters EXCEPT !.actorId = U1],
     [NoFilters EXCEPT !.action = "login"],
     [NoFilters EXCEPT !.requestId = RequestId(1)],
     [NoFilters EXCEPT !.from = toISOString(1)],
     [NoFilters EXCEPT !.to = toISOString(0)],
     [NoFilters EXCEPT !.from = toISOString(0), !.to = toISOString(1)],
     [NoFilters EXCEPT !.entity = "Book", !.actorId = U1, !.to = toISOString(1)],
     [NoFilters EXCEPT !.entityId = U1, !.action = "update"]}

\* GET /api/audits with one of the queries and a page size
FilterStart ==
    /\ page.status = "none"
    /\ \E filters \in FilterChoices, limit \in {<<>>, String(1), String(2)} :
          page' = [status |-> "paging", filters |-> [filters EXCEPT !.limit = limit],
                   cursor |-> <<>>, items |-> <<>>, fetched |-> 0]
    /\ UNCHANGED <<books, auditLog, now, req, started, dcall, ccall, rcall>>

NextFilter == FilterWrite \/ PageTick \/ FilterStart \/ FetchPage

SpecFilter == InitPageCalls /\ [][NextFilter]_vars

-----------------------------------------------------------------------------
(* Properties *)

\* the keys of a snapshot argument, none for an absent snapshot
KeysOf(obj) == IF obj = Null THEN {} ELSE DOMAIN obj

\* the raw value of a key of a snapshot argument
RawValue(obj, key) == IF obj = Null THEN Undefined ELSE Get(obj, key)

\* C1: for an entity name the registry does not track, createAuditLog
\* returns null and leaves the audit log as it was, whatever the action,
\* the actor and the before/after arguments
C1_UntrackedNotRecorded ==
    [][(~rcall.done /\ rcall'.done /\ ~isAuditable(rcall.params.entity))
         => (rcall'.result = Null /\ auditLog' = auditLog)]_vars

C1_Witness ==
    /\ rcall.done
    /\ rcall.params.entity = "constructor"
    /\ rcall.params.action = "create"
    /\ rcall.params.after # Null
    /\ rcall.result = Null
    /\ auditLog # {}

\* C9: for a tracked entity, no excluded key is in the before or after
\* output of computeDiff nor in fieldsChanged, and fieldsChanged is empty
\* when every key whose raw value differs is an excluded one
C9_ExcludedNeverInDiff ==
    (dcall.done /\ isAuditable(dcall.entity)) =>
        LET exclude == auditConfig[dcall.entity].exclude
            others == (KeysOf(dcall.before) \cup KeysOf(dcall.after)) \ exclude
        IN  /\ DOMAIN dcall.result.before \cap exclude = {}
            /\ DOMAIN dcall.result.after \cap exclude = {}
            /\ Range(dcall.result.fieldsChanged) \cap exclude = {}
            /\ (\A k \in others : RawValue(dcall.before, k) = RawValue(dcall.after, k))
                  => dcall.result.fieldsChanged = <<>>

C9_Witness ==
    /\ dcall.done
    /\ dcall.entity = "Book"
    /\ dcall.before # Null /\ dcall.after # Null
    /\ DOMAIN dcall.before = {"title", "updatedAt"}
    /\ DOMAIN dcall.after = {"title", "updatedAt"}
    /\ dcall.before.title = dcall.after.title
    /\ dcall.before.updatedAt # dcall.after.updatedAt
    /\ dcall.before.updatedAt # Null /\ dcall.after.updatedAt # Null
    /\ dcall.result.fieldsChanged = <<>>

\* C10: for a tracked entity, a redacted field that is present shows as the
\* sentinel in the before and after outputs of computeDiff, and a call
\* that differs only in the raw value of a redacted field has the same
\* before and after outputs
C10_RedactedValuesHidden ==
    (dcall.done /\ isAuditable(dcall.entity)) =>
        \A k \in auditConfig[dcall.entity].redact :
            /\ k \in KeysOf(dcall.before) =>
                  /\ Get(dcall.result.before, k) = VStr(REDACTED)
                  /\ \A val \in DiffVals :
                        LET other == computeDiff(dcall.entity,
                                                 [dcall.before EXCEPT ![k] = val],
                                                 dcall.after)
                        IN  /\ other.before = dcall.result.before
                            /\ other.after = dcall.result.after
            /\ k \in KeysOf(dcall.after) =>
                  /\ Get(dcall.result.after, k) = VStr(REDACTED)
                  /\ \A val \in DiffVals :
                        LET other == computeDiff(dcall.entity, dcall.before,
                                                 [dcall.after EXCEPT ![k] = val])
                        IN  /\ other.before = dcall.result.before
                            /\ other.after = dcall.result.after

C10_Witness ==
    /\ dcall.done
    /\ dcall.entity = "User"
    /\ dcall.before # Null /\ dcall.after # Null
    /\ "password" \in DOMAIN dcall.before /\ "password" \in DOMAIN dcall.after
    /\ dcall.before.password # Null
    /\ dcall.after.password = Null
    /\ dcall.result.before.password = VStr(REDACTED)
    /\ dcall.result.after.password = VStr(REDACTED)


\* a parsed value of the shape CursorData: an object with a string id, a
\* string timestamp or none, and no other member
IsCursorData(val) ==
    /\ val.t = "jobj"
    /\ Member(val, "id").t = "str"
    /\ Member(val, "timestamp").t \in {"str", "undefined"}
    /\ \A i \in DOMAIN val.v : val.v[i].key \in {Spell["id"], Spell["timestamp"]}

\* text is what encodeCursor returns for some CursorData
IsCursorEncoding(text) ==
    LET val == decodeCursor(text)
    IN  /\ IsCursorData(val)
        /\ encodeCursor([id |-> Member(val, "id"),
                         timestamp |-> Member(val, "timestamp")]) = text

\* C7: for every cursor payload c = {id, timestamp} (timestamp a string or
\* absent), decodeCursor(encodeCursor(c)) is an object whose id and timestamp
\* are those of c and that has no other member.
C7_CursorRoundTrip ==
    (ccall.kind = "encode" /\ ccall.stage \in {"decoded", "listed"}) =>
        /\ IsCursorData(ccall.output)
        /\ Member(ccall.output, "id") = ccall.data.id
        /\ Member(ccall.output, "timestamp") = ccall.data.timestamp
        /\ Len(ccall.output.v) = Cardinality({k \in {"id", "timestamp"} :
                                                ccall.data[k] # Undefined})

C7_Witness ==
    /\ ccall.kind = "encode" /\ ccall.stage = "decoded"
    /\ ccall.data.id = VStr(<<34, 8364>>)
    /\ ccall.data.timestamp = VStr(toISOString(1))
    /\ Member(ccall.output, "id") = VStr(<<34, 8364>>)

\* C8: for every cursor string that is not the encoding of a {id, timestamp}
\* payload, decodeCursor returns null and findAuditLogs answers as it does
\* without a cursor: the first page, no error.
C8_ForeignCursorIgnored ==
    (ccall.kind = "decode" /\ ccall.stage = "listed" /\ ~IsCursorEncoding(ccall.text)) =>
        /\ ccall.output = Null
        /\ ccall.page = findAuditLogs(NoFilters, auditLog)

\* C6: for a fixed log, any filters and a limit L >= 1, following nextCursor
\* until hasMore is false never fails and returns, concatenated, exactly the
\* matching rows, each once, in strictly descending (timestamp, id) order.
C6_PagingComplete ==
    (page.status # "none" /\ LimitOf(page.filters) # NaN /\ LimitOf(page.filters).v >= 1) =>
        /\ page.status \in {"paging", "done"}
        /\ \A i, j \in DOMAIN page.items : i < j => Before(page.items[i], page.items[j])
        /\ \A i \in DOMAIN page.items : Where(page.items[i], page.filters)
        /\ page.status = "done" =>
              page.items = OrderBy({row \in auditLog : Where(row, page.filters)})

\* three pages of one row each, the first two rows written in the same
\* millisecond
C6_Witness ==
    /\ page.status = "done" /\ page.filters.limit = String(1)
    /\ page.fetched = 3 /\ Len(page.items) = 3
    /\ page.items[1].timestamp = page.items[2].timestamp
    /\ Cardinality(auditLog) = 3

\* the request in slot r is a finished call of the book operation op
Finished(r, op) == req[r].pc = "done" /\ req[r].op = op

\* the context of the request in slot r carries an actor id
ActorPresent(r) == req[r].ctx # Undefined /\ req[r].ctx.userId # Undefined

\* the book the request in slot r names existed when the request arrived
Existed(r) == req[r].id \in DOMAIN req[r].books0

\* C2: the audit log is append-only: in every step of every execution, with
\* requests interleaved, each entry in the log stays in it with all its
\* fields unchanged.
C2_AppendOnly == [][\A e \in auditLog : e \in auditLog']_vars

C2_Witness ==
    \E e1, e2 \in auditLog :
        /\ e1.action = "update" /\ e2.action = "delete"
        /\ e1.entityId = e2.entityId

\* C3: with an actor id in the context, every successful Book create,
\* update that changes a field, soft-delete and restore has added exactly
\* one entry, with entity 'Book', the book's id and the operation as action.
C3_OneEntryPerOperation ==
    \A r \in Slots :
        (/\ req[r].pc = "done" /\ req[r].op \in BookOps /\ req[r].result = "ok"
         /\ ActorPresent(r)
         /\ req[r].op = "update" =>
               \E k \in DOMAIN req[r].data : req[r].books0[req[r].id][k] # req[r].data[k])
        => \E e \in auditLog \ req[r].log0 :
              /\ auditLog = req[r].log0 \cup {e}
              /\ e.entity = "Book"
              /\ e.entityId = req[r].id
              /\ e.action = req[r].op

C3_Witness ==
    \E r \in Slots :
        /\ Finished(r, "restore") /\ req[r].result = "ok" /\ ActorPresent(r)
        /\ Cardinality(auditLog) = 2 /\ Cardinality(req[r].log0) = 1

\* C4: deleting a book whose isDeleted flag is set fails with
\* ALREADY_DELETED, restoring a book whose flag is clear fails with
\* NOT_DELETED; a successful delete takes the flag from clear to set, a
\* successful restore from set to clear.
C4_DeleteRestoreGuards ==
    \A r \in Slots :
        /\ (Finished(r, "delete") /\ Existed(r) /\ req[r].books0[req[r].id].isDeleted.v)
              => req[r].result = "ALREADY_DELETED"
        /\ (Finished(r, "restore") /\ Existed(r) /\ ~req[r].books0[req[r].id].isDeleted.v)
              => req[r].result = "NOT_DELETED"
        /\ (Finished(r, "delete") /\ req[r].result = "ok")
              => /\ ~req[r].books0[req[r].id].isDeleted.v
                 /\ books[req[r].id].isDeleted.v
        /\ (Finished(r, "restore") /\ req[r].result = "ok")
              => /\ req[r].books0[req[r].id].isDeleted.v
                 /\ ~books[req[r].id].isDeleted.v

C4_Witness ==
    \E r \in Slots :
        /\ Finished(r, "delete") /\ req[r].result = "ALREADY_DELETED"
        /\ books[req[r].id].isDeleted.v

\* C5: an update whose supplied fields all equal the current values of a
\* (non-deleted) book returns the current record, writes nothing to the book
\* and adds no entry; and after a successful update its fields equal the
\* supplied ones, so the same update repeated right after is such a no-op.
C5_UpdateIdempotent ==
    \A r \in Slots :
        /\ (/\ Finished(r, "update") /\ Existed(r)
            /\ ~req[r].books0[req[r].id].isDeleted.v
            /\ \A k \in DOMAIN req[r].data : req[r].books0[req[r].id][k] = req[r].data[k])
           => /\ req[r].result = "ok"
              /\ req[r].body = findBookById(req[r].books0, req[r].id, FALSE)
              /\ books = req[r].books0
              /\ auditLog = req[r].log0
        /\ (Finished(r, "update") /\ req[r].result = "ok")
           => \A k \in DOMAIN req[r].data : books[req[r].id][k] = req[r].data[k]

\* the same title change sent again after it was applied
C5_Witness ==
    \E r \in Slots :
        /\ Finished(r, "update") /\ req[r].result = "ok"
        /\ req[r].data = [title |-> Title2]
        /\ req[r].books0[req[r].id].title = Title2
        /\ req[r].books0[req[r].id].updatedById # Null
        /\ books = req[r].books0 /\ auditLog = req[r].log0

\* C11: for a tracked entity, a redacted field present on both sides with
\* different raw values is named in fieldsChanged.
C11_RedactedChangeVisible ==
    (dcall.done /\ isAuditable(dcall.entity) /\ dcall.before # Null /\ dcall.after # Null) =>
        \A k \in auditConfig[dcall.entity].redact \cap DOMAIN dcall.before
                                                  \cap DOMAIN dcall.after :
            dcall.before[k] # dcall.after[k] => k \in Range(dcall.result.fieldsChanged)

\* the actions of the entries of a listing, in the order of the listing
ActionsOf(items) == [i \in 1..Len(items) |-> items[i].action]

\* C12: after create, update, delete and restore of one book by one actor, the
\* listing of the book's entries is restore, delete, update, create.
C12_StoryListedNewestFirst ==
    (/\ started = Len(StoryOps) /\ req[1].pc = "done" /\ req[1].result = "ok"
     /\ page.status = "done" /\ page.filters.entityId # <<>>) =>
        ActionsOf(page.items) = <<"restore", "delete", "update", "create">>

\* C13: an update of a book that changes only the title records an entry whose
\* fieldsChanged is exactly "title".
C13_TitleOnlyUpdate ==
    \A r \in Slots :
        (/\ Finished(r, "update") /\ req[r].result = "ok" /\ ActorPresent(r)
         /\ DOMAIN req[r].data = {"title"}
         /\ req[r].books0[req[r].id].title # req[r].data.title)
        => \A e \in auditLog \ req[r].log0 : e.fieldsChanged = VStr(Spell["title"])

\* the field names an entry lists as changed
FieldsOf(e) ==
    IF e.fieldsChanged = Null THEN {} ELSE Range(Split(e.fieldsChanged.v, <<>>))

\* the field names a fieldsChanged filter lists
NamesOf(filters) == {Trim(n) : n \in Range(Split(filters.fieldsChanged, <<>>))}

\* C14: with a fieldsChanged filter, an entry is returned if and only if one
\* of the listed names is an element of the entry's own changed fields and
\* the other filters match.
C14_FieldFilterByElement ==
    (page.status = "done" /\ page.filters.fieldsChanged # <<>>) =>
        \A e \in auditLog :
            e \in Range(page.items) <=>
                /\ NamesOf(page.filters) \cap FieldsOf(e) # {}
                /\ Where(e, [page.filters EXCEPT !.fieldsChanged = <<>>])

\* C15: getAuditLogs fails with INVALID_ENTITY when the entity filter names
\* an entity that is not tracked, and with INVALID_DATE_RANGE when from and to
\* are given and from is after to (the entity filter being acceptable); in
\* both cases no query runs; from equal to to is accepted and queried.
C15_FiltersValidated ==
    page.status = "called" =>
        LET f == page.filters
            a == page.answer
            badEntity == f.entity # "" /\ f.entity \notin {"Book", "User"}
            given == NewDate(f.from) # InvalidDate /\ NewDate(f.to) # InvalidDate
        IN  /\ badEntity => a.code = "INVALID_ENTITY" /\ ~a.queried
            /\ (~badEntity /\ given /\ NewDate(f.from) > NewDate(f.to)) =>
                  a.code = "INVALID_DATE_RANGE" /\ ~a.queried
            /\ (~badEntity /\ given /\ NewDate(f.from) = NewDate(f.to)) =>
                  /\ a.code = "" /\ a.queried /\ a.result.status = "ok"
                  /\ Range(a.result.items) =
                        {e \in auditLog : Where(e, f)}

C15_Witness ==
    /\ page.status = "called" /\ page.answer.code = "INVALID_DATE_RANGE"
    /\ page.filters.entity = "Book"
    /\ \E e \in auditLog : e.entity = "Book"

\* the request in slot r is past its requestContextMiddleware
Running(r) == req[r].pc # "idle"

\* C16: with requests interleaved, the context of a request holds that
\* request's own id and either no user or its own user, the setUserId of a
\* request leaves the other requests as they are, and an entry recorded by a
\* request carries that request's id and user.
C16_ContextsIsolated ==
    /\ [](\A r \in Slots : Running(r) =>
            /\ getRequestId(req[r].ctx) = VStr(req[r].rid)
            /\ getUserId(req[r].ctx) \in {Undefined, VStr(req[r].userId)})
    /\ [][\A r \in Slots :
            /\ (req[r].pc = "auth" /\ req'[r].pc = "service") =>
                  /\ getUserId(req'[r].ctx) = VStr(req[r].userId)
                  /\ \A s \in Slots \ {r} : req'[s] = req[s]
            /\ (req[r].pc = "audit" /\ req'[r].pc = "done") =>
                  \A e \in auditLog' \ auditLog :
                      /\ e.requestId = VStr(req[r].rid)
                      /\ e.actorId = req[r].userId]_vars

\* two requests of different users are running, one has recorded its entry
\* while the other was past its authentication
C16_Witness ==
    /\ Running(1) /\ Running(2)
    /\ req[1].userId # req[2].userId
    /\ req[1].pc = "done" /\ req[1].result = "ok" /\ req[2].pc \in {"read", "write", "audit"}
    /\ \E e \in auditLog \ req[1].log0 : e.actorId = req[1].userId
    /\ req[2].log0 = {}

\* the stored row of the book of request r is the one its write returned
Persisted(r) ==
    /\ req[r].id \in DOMAIN books
    /\ req[r].book = (IF req[r].op = "create" THEN WithCreator(books[req[r].id])
                      ELSE WithRelations(books[req[r].id]))
    /\ books # req[r].books0

\* C17: an operation that has written the book in a context without an actor
\* id returns normally, writes no audit entry, and its write stays stored.
C17_NoActorNoEntry ==
    \A r \in Slots :
        (/\ req[r].pc = "done" /\ req[r].op \in BookOps /\ req[r].book # Null
         /\ ~ActorPresent(r))
        => /\ req[r].result = "ok" /\ req[r].body = req[r].book
           /\ auditLog = req[r].log0
           /\ Persisted(r)

C17_Witness ==
    \E r \in Slots :
        /\ Finished(r, "delete") /\ req[r].result = "ok" /\ req[r].ctx = Undefined
        /\ books[req[r].id].isDeleted.v /\ ~req[r].books0[req[r].id].isDeleted.v

\* C18: when the audit write fails after the book was written, the operation
\* reports an error, the book keeps the state the write gave it, and the log
\* has no entry for the operation.
C18_AuditFailurePropagates ==
    \A r \in Slots :
        (req[r].pc = "done" /\ req[r].op \in BookOps /\ req[r].auditFailed)
        => /\ req[r].result = "error" /\ req[r].body = Null
           /\ Persisted(r)
           /\ auditLog = req[r].log0

C18_Witness ==
    \E r \in Slots :
        /\ Finished(r, "update") /\ req[r].auditFailed /\ ActorPresent(r)
        /\ books[req[r].id].title # req[r].books0[req[r].id].title
        /\ auditLog = {}

\* the page size min(max(requested, 1), maxLimit), the default when no
\* limit is requested
ClampedLimit(text) ==
    IF text = <<>> THEN 10
    ELSE LET n == IF text[1] = 45 THEN 0 - DigitsValue(Tail(text), 0)
                  ELSE DigitsValue(text, 0)
         IN  IF n < 1 THEN 1 ELSE IF n > 100 THEN 100 ELSE n

\* C19: for every requested limit the book listing and the audit listing
\* (its repository, and its route) use the page size
\* min(max(requested, 1), maxLimit), the default for no limit, and reject
\* nothing.
C19_LimitsClamped ==
    page.status = "limits" =>
        /\ page.books = Num(ClampedLimit(page.requested))
        /\ page.audits = Num(ClampedLimit(page.requested))
        /\ page.route = Num(ClampedLimit(page.requested))

\* the columns a delete or a restore may write: the flag, and who updated
\* the row and when
FlagColumns == {"isDeleted", "updatedById", "updatedAt"}

\* C20: no step removes a book from the store, and the write of a delete or
\* of a restore sets, respectively clears, isDeleted and leaves the row's
\* other columns (but for updatedById and updatedAt) and every other row
\* as they are.
C20_BooksNeverRemoved ==
    [][/\ DOMAIN books \subseteq DOMAIN books'
       /\ \A r \in Slots :
            (/\ req[r].pc = "write" /\ req'[r].pc = "audit"
             /\ req[r].op \in {"delete", "restore"})
            => /\ books'[req[r].id].isDeleted = VBool(req[r].op = "delete")
               /\ \A k \in DOMAIN books[req[r].id] \ FlagColumns :
                     books'[req[r].id][k] = books[req[r].id][k]
               /\ \A id \in DOMAIN books \ {req[r].id} : books'[id] = books[id]]_vars

C20_Witness ==
    /\ Cardinality(DOMAIN books) = 2
    /\ books[B1].isDeleted.v
    /\ \E r \in Slots : Finished(r, "delete") /\ req[r].result = "ok" /\ req[r].id = B1

\* the before snapshot an entry stores
BeforeOf(e) == e.diff.v.before

\* the entries of the log for book id with the given action
EntriesOf(id, action) == {e \in auditLog : e.entityId = id /\ e.action = action}

\* C21: with requests interleaved, every delete entry has a before snapshot
\* with isDeleted false, every restore entry one with isDeleted true and
\* isDeleted among its changed fields, and a book never has two more delete
\* entries than restore entries.
C21_EntriesAreTransitions ==
    /\ \A e \in auditLog :
          /\ e.action = "delete" => BeforeOf(e).isDeleted = VBool(FALSE)
          /\ e.action = "restore" =>
                /\ BeforeOf(e).isDeleted = VBool(TRUE)
                /\ Spell["isDeleted"] \in FieldsOf(e)
    /\ \A id \in BookIds :
          Cardinality(EntriesOf(id, "delete")) <= Cardinality(EntriesOf(id, "restore")) + 1

\* C22: with requests interleaved, the before snapshot of an update is the
\* stored row at the moment of the update's own write, its after snapshot
\* the row that write stores, and the entry records these two snapshots.
C22_UpdateSnapshotsOwnWrite ==
    [][\A r \in Slots :
          /\ (req[r].pc = "write" /\ req'[r].pc = "audit" /\ req[r].op = "update") =>
                /\ req[r].before = books[req[r].id]
                /\ req'[r].book = WithRelations(books'[req[r].id])
          /\ (req[r].pc = "audit" /\ req'[r].pc = "done" /\ req[r].op = "update") =>
                \A e \in auditLog' \ auditLog :
                    /\ BeforeOf(e) = SerializedObject(processObject(req[r].before,
                                                                    auditConfig["Book"]))
                    /\ e.diff.v.after = SerializedObject(processObject(req[r].book,
                                                                       auditConfig["Book"]))]_vars

\* C23: with requests interleaved, an update whose service check meets a
\* deleted book fails with NOT_FOUND, and no update writes, or records an
\* entry for, a book whose isDeleted flag is set when the write is made.
C23_NoUpdateOfDeleted ==
    [][\A r \in Slots :
          /\ (/\ req[r].pc = "service" /\ req'[r].pc # "service" /\ req[r].op = "update"
              /\ req[r].id \in DOMAIN books /\ books[req[r].id].isDeleted.v) =>
                req'[r].pc = "done" /\ req'[r].result = "NOT_FOUND"
          /\ (req[r].pc = "write" /\ req'[r].pc = "audit" /\ req[r].op = "update") =>
                ~books[req[r].id].isDeleted.v]_vars

\* C24: when entries are written between the fetches, a listing with a
\* limit L >= 1 followed to hasMore = false has returned every matching
\* entry of the log of the first fetch exactly once, and no entry twice.
C24_PagingOverGrowingLog ==
    (page.status = "done" /\ LimitOf(page.filters) # NaN /\ LimitOf(page.filters).v >= 1) =>
        /\ \A i, j \in DOMAIN page.items : page.items[i] = page.items[j] => i = j
        /\ \A e \in page.first :
              Where(e, page.filters) => \E i \in DOMAIN page.items : page.items[i] = e
        /\ \A i \in DOMAIN page.items :
              page.items[i] \in auditLog /\ Where(page.items[i], page.filters)

\* two entries when the first page of one was fetched, a third written in
\* the same millisecond before the second fetch, with an id between theirs
C24_Witness ==
    /\ page.status = "done" /\ page.filters.limit = String(1)
    /\ Cardinality(page.first) = 2 /\ Len(page.items) = 3
    /\ page.items[2] \notin page.first
    /\ page.items[1].timestamp = page.items[3].timestamp

\* C25: while books are created, updated, deleted and restored between the
\* fetches, a book listing followed to hasMore = false never fails, has
\* returned no book twice, and has returned every book that was listed at
\* every moment from the first fetch on.
C25_BookPagingStable ==
    /\ page.status \in {"none", "paging", "done"}
    /\ page.status \in {"paging", "done"} =>
          \A i, j \in DOMAIN page.items : page.items[i].id = page.items[j].id => i = j
    /\ page.status = "done" =>
          \A id \in page.stable : \E i \in DOMAIN page.items : page.items[i].id = VStr(id)

\* pages of one book; between the fetches one book was deleted and another
\* retitled
C25_Witness ==
    /\ page.status = "done" /\ page.limit = String(1) /\ page.changes = 2
    /\ Len(page.items) = 2 /\ Cardinality(page.stable) = 2
    /\ Cardinality(DOMAIN books) = 3
    /\ \E id \in DOMAIN books : books[id].isDeleted.v
    /\ \E id \in page.stable : books[id].title = Title2 /\ books[id].updatedAt # books[id].createdAt

\* the cursor that names the last item of a result
CursorOfLast(kind, items) ==
    LET last == items[Len(items)]
    IN  IF kind = "audits"
        THEN VStr(encodeCursor([id |-> VStr(last.id),
                                timestamp |-> VStr(toISOString(last.timestamp))]))
        ELSE VStr(encodeCursor([id |-> last.id,
                                timestamp |-> VStr(toISOString(last.createdAt.v))]))

\* C26: a result of findAuditLogs or findBooks has at most limit items, has
\* hasMore exactly when it has a nextCursor, and its nextCursor encodes the
\* id and timestamp of its last item.
C26_ResultShape ==
    (page.status = "result" /\ page.answer.status = "ok") =>
        /\ Len(page.answer.items) <= page.limit.v
        /\ page.answer.hasMore <=> page.answer.nextCursor # Undefined
        /\ page.answer.nextCursor # Undefined =>
              /\ page.answer.items # <<>>
              /\ page.answer.nextCursor = CursorOfLast(page.kind, page.answer.items)

\* C27: for a tracked entity, a key that is neither excluded nor redacted
\* appears on its output side with its input value, null included; for a
\* create fieldsChanged is the set of the non-excluded keys of after, for a
\* delete that of before.
C27_ValuesPassedThrough ==
    (dcall.done /\ isAuditable(dcall.entity)) =>
        LET exclude == auditConfig[dcall.entity].exclude
            redact == auditConfig[dcall.entity].redact
        IN  /\ \A k \in KeysOf(dcall.before) \ (exclude \cup redact) :
                  Get(dcall.result.before, k) = dcall.before[k]
            /\ \A k \in KeysOf(dcall.after) \ (exclude \cup redact) :
                  Get(dcall.result.after, k) = dcall.after[k]
            /\ (dcall.before = Null /\ dcall.after # Null) =>
                  Range(dcall.result.fieldsChanged) = DOMAIN dcall.after \ exclude
            /\ (dcall.after = Null /\ dcall.before # Null) =>
                  Range(dcall.result.fieldsChanged) = DOMAIN dcall.before \ exclude

\* C28: an update, delete or restore of an id that is not in the store fails
\* with NOT_FOUND, and an update, delete or restore that has failed with
\* NOT_FOUND, ALREADY_DELETED or NOT_DELETED has written no book and no entry.
C28_FailureLeavesState ==
    \A r \in Slots :
        (req[r].pc = "done" /\ req[r].op \in {"update", "delete", "restore"}) =>
            /\ ~Existed(r) => req[r].result = "NOT_FOUND"
            /\ req[r].result \in {"NOT_FOUND", "ALREADY_DELETED", "NOT_DELETED"} =>
                  books = req[r].books0 /\ auditLog = req[r].log0

\* a restore of a book that is not deleted, after an earlier request wrote
\* an entry
C28_Witness ==
    \E r \in Slots :
        /\ Finished(r, "restore") /\ req[r].result = "NOT_DELETED"
        /\ ActorPresent(r) /\ req[r].log0 # {}

\* the columns that identify a book and its origin, and its content
OriginColumns == {"id", "createdById", "createdAt"}
ContentColumns == {"title", "authors", "publishedBy"}

\* the request in slot r makes its write in this step
Writes(r) == req[r].pc = "write" /\ req'[r].pc = "audit"

\* C29: the write of a delete or restore leaves the content and the origin
\* columns of its book as they are, the write of an update leaves isDeleted
\* and the origin columns as they are, and no step changes a book other
\* than the one the writing request names.
C29_LifecycleFrame ==
    [][/\ (\A r \in Slots : ~Writes(r)) => books' = books
       /\ \A r \in Slots : Writes(r) =>
             /\ \A id \in DOMAIN books \ {req'[r].id} : books'[id] = books[id]
             /\ req[r].op \in {"delete", "restore"} =>
                   \A k \in OriginColumns \cup ContentColumns :
                       books'[req[r].id][k] = books[req[r].id][k]
             /\ req[r].op = "update" =>
                   \A k \in OriginColumns \cup {"isDeleted"} :
                       books'[req[r].id][k] = books[req[r].id][k]]_vars

\* an update has retitled the book one millisecond after its creation
C29_Witness ==
    \E r \in Slots :
        /\ Finished(r, "update") /\ req[r].result = "ok" /\ Existed(r)
        /\ books[req[r].id].title # req[r].books0[req[r].id].title
        /\ books[req[r].id].updatedAt = VDate(1) /\ books[req[r].id].createdAt = VDate(0)
        /\ books[req[r].id].updatedById = VStr(U2)

\* what the filters of a query ask of an entry: equality for each of the
\* five columns that is given, and a timestamp within the given bounds
Matches(row, filters) ==
    /\ filters.entity # "" => row.entity = filters.entity
    /\ filters.action # "" => row.action = filters.action
    /\ filters.entityId # <<>> => row.entityId = filters.entityId
    /\ filters.actorId # <<>> => row.actorId = filters.actorId
    /\ filters.requestId # <<>> =>
          row.requestId # Null /\ row.requestId.v = filters.requestId
    /\ filters.from # <<>> => NewDate(filters.from) <= row.timestamp
    /\ filters.to # <<>> => row.timestamp <= NewDate(filters.to)

\* C30: every entry a page of findAuditLogs returns equals each given filter
\* among entity, entityId, actorId, action and requestId and has its
\* timestamp between from and to, both inclusive; when the listing has
\* reached its last page every entry of the log that does so has been
\* returned, and a query without filters has returned the whole log.
C30_FiltersSelect ==
    (page.status \in {"paging", "done"}) =>
        /\ \A i \in DOMAIN page.items : Matches(page.items[i], page.filters)
        /\ page.status = "done" =>
              /\ \A row \in auditLog :
                    Matches(row, page.filters) =>
                        \E i \in DOMAIN page.items : page.items[i] = row
              /\ [page.filters EXCEPT !.limit = <<>>] = NoFilters =>
                    {page.items[i] : i \in DOMAIN page.items} = auditLog

\* a listing of two pages from a lower bound has returned an entry written
\* at the bound itself and has left an older entry out
C30_Witness ==
    /\ page.status = "done" /\ page.fetched >= 2
    /\ page.filters.from # <<>>
    /\ \E i \in DOMAIN page.items :
          page.items[i].timestamp = NewDate(page.filters.from)
    /\ \E row \in auditLog : \A i \in DOMAIN page.items : page.items[i] # row

====
